---- MODULE Spec2Model ----
(***************************************************************************)
(* Loom Lite hierarchy construction and adaptive ranking.                  *)
(*                                                                         *)
(*   SpecSemantic : backend/semantic_cluster.py, build_semantic_hierarchy  *)
(*                  applied to one micro-ontology, then to its own output. *)
(*   SpecAdaptive : backend/adaptive_hierarchy.py, build_adaptive_hierarchy*)
(*                  called twice on the same concept objects.              *)
(*   SpecDepth    : determine_hierarchy_depth on sizes around its limits.  *)
(*   SpecGroups   : create_refinement_groups on one cluster's members.     *)
(*   SpecScore    : backend/semantic_folders.py, calculate_auto_sort_score.*)
(*   SpecSearch   : backend/api.py, one GET /search request on a database. *)
(*   SpecFolders  : build_semantic_folders and POST /admin/sort-weights on *)
(*                  one database.                                          *)
(*   SpecViews    : backend/analytics.py, concurrent track_folder_view     *)
(*                  calls on one database.                                 *)
(*   SpecJobs     : ingestion jobs of backend/api.py and backend/n8n_api.py*)
(*                  and their background tasks; LiveJobs adds fairness.    *)
(***************************************************************************)
EXTENDS Integers, Sequences, FiniteSets, TLC

VARIABLES
    ontology,    \* MicroOntology: concepts, relations, mentions
    source,      \* the concept list the ontology was constructed with
    clusters,    \* what identify_clusters returned in the last build
    first,       \* ontology.concepts after the first build
    hashOrder,   \* the iteration order of this process's sets of concept ids
    runs         \* number of build_semantic_hierarchy calls made so far

semVars == <<ontology, source, clusters, first, hashOrder, runs>>

VARIABLES
    adInput,     \* build_adaptive_hierarchy's arguments: clusters, relation_graph, doc_length
    adHeap,      \* the Concept objects of the caller, by id (annotated in place)
    adOut,       \* the list the last build_adaptive_hierarchy call returned
    adFirst,     \* the list the first call returned
    adCalls,     \* label-provider calls of the last build, one entry per call
    adRuns       \* number of build_adaptive_hierarchy calls made so far

adVars == <<adInput, adHeap, adOut, adFirst, adCalls, adRuns>>

VARIABLES
    dsIn,        \* determine_hierarchy_depth's arguments
    dsDepth      \* the depth it returned (0: not called yet)

dsVars == <<dsIn, dsDepth>>

VARIABLES
    rgIn,        \* create_refinement_groups' arguments: member ids, relation_graph
    rgGroups,    \* the groups it returned
    rgDone       \* whether it has been called

rgVars == <<rgIn, rgGroups, rgDone>>

VARIABLES
    scIn,        \* calculate_auto_sort_score's arguments
    scOut        \* the component scores it computed and the score it returned

scVars == <<scIn, scOut>>

VARIABLES
    srDb,        \* the documents and concepts tables the request reads
    srReq,       \* the request (q, types, semantic) and what the similarity provider does
    srResp       \* the response (<<>>: the request has not been served)

srVars == <<srDb, srReq, srResp>>

VARIABLES
    fdDb,        \* the documents and concepts tables the folder builds read
    fdWeights,   \* the sort_weights table
    fdLast,      \* the deltas and the status of the last update_sort_weights call
    fdUpdates,   \* number of update_sort_weights calls made so far
    fdOut        \* what the last build_semantic_folders call returned

fdVars == <<fdDb, fdWeights, fdLast, fdUpdates, fdOut>>

VARIABLES
    vwTable,     \* the committed rows of the folder_stats table
    vwCall,      \* per caller: where its track_folder_view call stands, and its locals
    vwLock,      \* the caller whose connection holds the write lock (0: none)
    vwClock      \* datetime.now(), as a count of the readings made

vwVars == <<vwTable, vwCall, vwLock, vwClock>>

VARIABLES
    jbJobs,      \* the job records, by job id (the jobs dict, the jobs table)
    jbTask       \* per job: which module's background task runs it, and where it stands

jbVars == <<jbJobs, jbTask>>

vars == <<semVars, adVars, dsVars, rgVars, scVars, srVars, fdVars, vwVars, jbVars>>

\* The state of the function families a specification does not exercise.
OthersIdle(family) ==
    /\ IF family = "semantic" THEN TRUE
       ELSE /\ ontology = <<>> /\ source = <<>> /\ clusters = <<>>
            /\ first = <<>> /\ hashOrder = <<>> /\ runs = 0
    /\ IF family = "adaptive" THEN TRUE
       ELSE /\ adInput = <<>> /\ adHeap = <<>> /\ adOut = <<>>
            /\ adFirst = <<>> /\ adCalls = <<>> /\ adRuns = 0
    /\ IF family = "depth" THEN TRUE ELSE dsIn = <<>> /\ dsDepth = 0
    /\ IF family = "groups" THEN TRUE ELSE rgIn = <<>> /\ rgGroups = <<>> /\ rgDone = FALSE
    /\ IF family = "score" THEN TRUE ELSE scIn = <<>> /\ scOut = <<>>
    /\ IF family = "search" THEN TRUE ELSE srDb = <<>> /\ srReq = <<>> /\ srResp = <<>>
    /\ IF family = "folders" THEN TRUE
       ELSE /\ fdDb = <<>> /\ fdWeights = [created |-> FALSE, rows |-> <<>>]
            /\ fdLast = <<>>
            /\ fdUpdates = 0 /\ fdOut = <<>>
    /\ IF family = "views" THEN TRUE
       ELSE vwTable = <<>> /\ vwCall = <<>> /\ vwLock = 0 /\ vwClock = 0
    /\ IF family = "jobs" THEN TRUE ELSE jbJobs = <<>> /\ jbTask = <<>>

OthersUnchanged(family) ==
    /\ IF family = "semantic" THEN TRUE ELSE UNCHANGED semVars
    /\ IF family = "adaptive" THEN TRUE ELSE UNCHANGED adVars
    /\ IF family = "depth" THEN TRUE ELSE UNCHANGED dsVars
    /\ IF family = "groups" THEN TRUE ELSE UNCHANGED rgVars
    /\ IF family = "score" THEN TRUE ELSE UNCHANGED scVars
    /\ IF family = "search" THEN TRUE ELSE UNCHANGED srVars
    /\ IF family = "folders" THEN TRUE ELSE UNCHANGED fdVars
    /\ IF family = "views" THEN TRUE ELSE UNCHANGED vwVars
    /\ IF family = "jobs" THEN TRUE ELSE UNCHANGED jbVars

----------------------------------------------------------------------------
(* Generic helpers over sequences and sets.                                *)

Range(s) == {s[i] : i \in DOMAIN s}

\* All orderings (without repetition) of a finite set.
Perms(S) == {p \in [1..Cardinality(S) -> S] : Range(p) = S}

\* Python's None for the optional string fields
None == "None"
\* Python's None for the optional numeric fields (hierarchy_level, coherence)
NoneNum == -1

----------------------------------------------------------------------------
(* Bounds and input sets of SpecSemantic.                                  *)

MaxRels == 3

DocId == "d"
Ids == <<"c1", "c2", "c3", "c4">>

\* Relation triples the input relation list is drawn from; "gone" is the id of
\* no concept.
RelationPool ==
    {[src |-> Ids[i], rel |-> "defines", dst |-> Ids[j]] :
        <<i, j>> \in {<<1, 1>>, <<1, 2>>, <<1, 3>>, <<1, 4>>, <<2, 3>>, <<3, 4>>,
                      <<2, 1>>, <<3, 2>>, <<4, 3>>}}
    \cup {[src |-> Ids[i], rel |-> "develops", dst |-> Ids[i + 1]] : i \in {1, 3}}
    \cup {[src |-> Ids[i], rel |-> "uses", dst |-> Ids[i + 1]] : i \in {1, 2}}
    \cup {[src |-> Ids[4], rel |-> "defines", dst |-> "gone"]}

\* (has mention links, words in the label, coherence in percent or NoneNum)
QualityProfiles ==
    { [mentioned |-> FALSE, words |-> 2, coherence |-> NoneNum],
      [mentioned |-> TRUE,  words |-> 2, coherence |-> NoneNum],
      [mentioned |-> TRUE,  words |-> 6, coherence |-> 50],
      [mentioned |-> TRUE,  words |-> 6, coherence |-> 90] }


----------------------------------------------------------------------------
(* backend/models.py                                                       *)

\* A Concept as the extraction hands it to the hierarchy engine.
Concept(id, type, q) ==
    [concept_id |-> id, type |-> type, words |-> q.words, coherence |-> q.coherence,
     parent_cluster_id |-> None, parent_concept_id |-> None, hierarchy_level |-> NoneNum]

ConceptIds(concepts) == {concepts[i].concept_id : i \in DOMAIN concepts}

----------------------------------------------------------------------------
(* backend/semantic_cluster.py                                             *)

min_span_length == 6
coherence_threshold == 75
cluster_relations == {"defines", "contains", "supports", "develops"}
refinement_relations == {"defines", "contains", "supports"}

\* The concepts kept: no mention links, or a label of min_span_length words and
\* more whose coherence, when set and non-zero, reaches the threshold.
KeepConcept(c, mentions) ==
    \/ c.concept_id \notin mentions
    \/ /\ c.words >= min_span_length
       /\ ~(c.coherence /= NoneNum /\ c.coherence /= 0 /\ c.coherence < coherence_threshold)

filter_concepts(concepts, mentions) ==
    SelectSeq(concepts, LAMBDA c : KeepConcept(c, mentions))

\* relation_graph.get(id, []): for each relation in list order, the forward edge
\* under its source and the "~"-prefixed reverse edge under its destination.
RECURSIVE build_relation_graph(_, _)
build_relation_graph(relations, id) ==
    IF relations = <<>> THEN <<>>
    ELSE LET r == Head(relations)
             fwd == IF r.src = id THEN <<[rel |-> r.rel, target |-> r.dst]>> ELSE <<>>
             rev == IF r.dst = id THEN <<[rel |-> "~" \o r.rel, target |-> r.src]>> ELSE <<>>
         IN fwd \o rev \o build_relation_graph(Tail(relations), id)

\* ScanEdges without the test of the visited set.
RECURSIVE ScanEdgesIgnoringVisited(_, _, _, _)
ScanEdgesIgnoringVisited(edges, queue, cluster, visited) ==
    IF edges = <<>> THEN [queue |-> queue, cluster |-> cluster]
    ELSE LET e == Head(edges)
         IN IF e.rel \in cluster_relations /\ e.target \notin cluster
            THEN ScanEdgesIgnoringVisited(Tail(edges), Append(queue, e.target),
                                          cluster \cup {e.target}, visited)
            ELSE ScanEdgesIgnoringVisited(Tail(edges), queue, cluster, visited)

\* The for loop over one node's edges inside the breadth-first search.
RECURSIVE ScanEdges(_, _, _, _)
ScanEdges(edges, queue, cluster, visited) ==
    IF edges = <<>> THEN [queue |-> queue, cluster |-> cluster]
    ELSE LET e == Head(edges)
         IN IF e.rel \notin cluster_relations
            THEN ScanEdges(Tail(edges), queue, cluster, visited)
            ELSE IF e.target \notin visited /\ e.target \notin cluster
                 THEN ScanEdges(Tail(edges), Append(queue, e.target),
                                cluster \cup {e.target}, visited)
                 ELSE ScanEdges(Tail(edges), queue, cluster, visited)

\* The while loop: pop the head, scan its edges, mark it visited.
RECURSIVE GrowCluster(_, _, _, _)
GrowCluster(queue, cluster, visited, relations) ==
    IF queue = <<>> THEN [cluster |-> cluster, visited |-> visited]
    ELSE LET current_id == Head(queue)
             s == ScanEdges(build_relation_graph(relations, current_id),
                            Tail(queue), cluster, visited)
         IN GrowCluster(s.queue, s.cluster, visited \cup {current_id}, relations)

RECURSIVE ClusterLoop(_, _, _, _)
ClusterLoop(concepts, relations, found, visited) ==
    IF concepts = <<>> THEN found
    ELSE LET id == Head(concepts).concept_id
         IN IF id \in visited
            THEN ClusterLoop(Tail(concepts), relations, found, visited)
            ELSE LET g == GrowCluster(<<id>>, {id}, visited, relations)
                 IN ClusterLoop(Tail(concepts), relations,
                                IF Cardinality(g.cluster) >= 2
                                THEN Append(found, g.cluster) ELSE found,
                                g.visited)

\* List of clusters, each a set of concept ids.
identify_clusters(concepts, relations) == ClusterLoop(concepts, relations, <<>>, {})

ClusterId(i) == "cluster_" \o DocId \o "_" \o ToString(i)

\* One Topic concept per cluster, numbered from 0 in list order.
create_cluster_concepts(cls) ==
    [i \in DOMAIN cls |->
        [concept_id |-> ClusterId(i - 1), type |-> "Topic", words |-> 1, coherence |-> 100,
         parent_cluster_id |-> None, parent_concept_id |-> None, hierarchy_level |-> 1]]

\* Iteration over a set of ids: the ids in this process's hash order.
IterSet(S, order) == SelectSeq(order, LAMBDA x : x \in S)

\* concept_map[cid]: the concept of that id (the last one, were ids repeated).
Lookup(concepts, id) ==
    concepts[CHOOSE i \in DOMAIN concepts :
                /\ concepts[i].concept_id = id
                /\ \A j \in DOMAIN concepts : concepts[j].concept_id = id => j <= i]

\* The inner loop of identify_refinement_groups over one concept's edges.
RECURSIVE GroupEdges(_, _, _, _)
GroupEdges(edges, group, visited, members) ==
    IF edges = <<>> THEN [group |-> group, visited |-> visited]
    ELSE LET e == Head(edges)
         IN IF /\ e.target \notin visited
               /\ e.target \in ConceptIds(members)
               /\ e.rel \in refinement_relations
            THEN GroupEdges(Tail(edges), Append(group, e.target),
                            visited \cup {e.target}, members)
            ELSE GroupEdges(Tail(edges), group, visited, members)

RECURSIVE GroupLoop(_, _, _, _, _)
GroupLoop(rest, members, relations, groups, visited) ==
    IF rest = <<>> THEN groups
    ELSE LET id == Head(rest).concept_id
         IN IF id \in visited
            THEN GroupLoop(Tail(rest), members, relations, groups, visited)
            ELSE LET g == GroupEdges(build_relation_graph(relations, id),
                                     <<id>>, visited \cup {id}, members)
                 IN GroupLoop(Tail(rest), members, relations,
                              Append(groups, g.group), g.visited)

\* Groups of member ids, each group in the order its members were collected.
identify_refinement_groups(members, relations) ==
    GroupLoop(members, members, relations, <<>>, {})

\* A member attached directly to its cluster (parent_concept_id is not assigned).
AttachToCluster(c, cluster_id) ==
    [c EXCEPT !.parent_cluster_id = cluster_id, !.hierarchy_level = 3]

\* A member attached to a refinement node of its cluster.
AttachToRefinement(c, cluster_id, refinement_id) ==
    [c EXCEPT !.parent_cluster_id = cluster_id, !.parent_concept_id = refinement_id,
              !.hierarchy_level = 3]

RefinementId(cluster_id, j) == cluster_id \o "_ref_" \o ToString(j)

RefinementConcept(cluster_id, j) ==
    [concept_id |-> RefinementId(cluster_id, j), type |-> "Topic", words |-> 1,
     coherence |-> 90, parent_cluster_id |-> cluster_id, parent_concept_id |-> None,
     hierarchy_level |-> 2]

\* The loop over enumerate(refinement_groups), from group number j on.
RECURSIVE RefineGroups(_, _, _, _)
RefineGroups(groups, j, members, cluster_id) ==
    IF j > Len(groups) THEN <<>>
    ELSE LET group == groups[j]
             out == IF Len(group) = 1
                    THEN <<AttachToCluster(Lookup(members, group[1]), cluster_id)>>
                    ELSE <<RefinementConcept(cluster_id, j - 1)>>
                         \o [k \in DOMAIN group |->
                                AttachToRefinement(Lookup(members, group[k]), cluster_id,
                                                   RefinementId(cluster_id, j - 1))]
         IN out \o RefineGroups(groups, j + 1, members, cluster_id)

\* The loop over zip(cluster_concepts, clusters), from cluster number i on.
RECURSIVE build_intra_cluster_hierarchy(_, _, _, _, _)
build_intra_cluster_hierarchy(concepts, cls, i, relations, order) ==
    IF i > Len(cls) THEN <<>>
    ELSE LET cluster_id == ClusterId(i - 1)
             member_ids == IterSet(cls[i] \cap ConceptIds(concepts), order)
             cluster_members == [k \in DOMAIN member_ids |-> Lookup(concepts, member_ids[k])]
             out == IF Len(cluster_members) <= 3
                    THEN [k \in DOMAIN cluster_members |->
                             AttachToCluster(cluster_members[k], cluster_id)]
                    ELSE RefineGroups(identify_refinement_groups(cluster_members, relations),
                                      1, cluster_members, cluster_id)
         IN out \o build_intra_cluster_hierarchy(concepts, cls, i + 1, relations, order)

\* Cluster concepts first, then the refined concepts.
assign_hierarchy_levels(refined_concepts, cluster_concepts) ==
    cluster_concepts \o refined_concepts

\* The concept list build_semantic_hierarchy stores into the ontology.
build_semantic_hierarchy(ont, order) ==
    LET filtered_concepts == filter_concepts(ont.concepts, ont.mentions)
        cls == identify_clusters(filtered_concepts, ont.relations)
        cluster_concepts == create_cluster_concepts(cls)
        refined_concepts ==
            build_intra_cluster_hierarchy(filtered_concepts, cls, 1, ont.relations, order)
    IN assign_hierarchy_levels(refined_concepts, cluster_concepts)

----------------------------------------------------------------------------
(* SpecSemantic: one ontology, built and built again in the same process.  *)

MaxBuilds == 2

IndexOf(id) == CHOOSE i \in DOMAIN Ids : Ids[i] = id

\* The relation lists of the input.  The engine reads the list only through each
\* source's adjacency list (reverse edges carry a "~" type that no step follows),
\* so a list stands for all its interleavings of different sources' relations:
\* the lists are taken with the sources in concept order.
RelationLists ==
    UNION {{rels \in [1..n -> RelationPool] :
               \A i \in 1..(n - 1) : IndexOf(rels[i].src) <= IndexOf(rels[i + 1].src)}
           : n \in 0..MaxRels}

\* The second concept takes every profile; the others carry no mention links.
QualityCases ==
    {q \in [DOMAIN Ids -> QualityProfiles] : \A i \in DOMAIN Ids : q[i].mentioned => i = 2}

InitSemantic ==
    /\ \E q \in QualityCases, rels \in RelationLists :
          /\ ontology = [concepts |-> [i \in DOMAIN Ids |-> Concept(Ids[i], "Metric", q[i])],
                         relations |-> rels,
                         mentions |-> {Ids[i] : i \in {j \in DOMAIN Ids : q[j].mentioned}}]
          /\ source = [i \in DOMAIN Ids |-> Concept(Ids[i], "Metric", q[i])]
    /\ clusters = <<>>
    /\ first = <<>>
    /\ hashOrder = <<>>
    /\ runs = 0
    /\ OthersIdle("semantic")

\* The iteration orders of the cluster sets: one ordering of each cluster's
\* members (those that are concepts), cluster after cluster.
RECURSIVE ClusterOrders(_, _, _)
ClusterOrders(cls, i, ids) ==
    IF i > Len(cls) THEN {<<>>}
    ELSE {p \o rest : p \in Perms(cls[i] \cap ids), rest \in ClusterOrders(cls, i + 1, ids)}

HashOrders(ont) ==
    LET filtered == filter_concepts(ont.concepts, ont.mentions)
    IN ClusterOrders(identify_clusters(filtered, ont.relations), 1, ConceptIds(filtered))

BuildSemanticHierarchy ==
    /\ runs < MaxBuilds
    /\ \E order \in (IF runs = 0 THEN HashOrders(ontology) ELSE {hashOrder}) :
          /\ ontology' = [ontology EXCEPT
                            !.concepts = build_semantic_hierarchy(ontology, order)]
          /\ hashOrder' = order
    /\ clusters' = identify_clusters(filter_concepts(ontology.concepts, ontology.mentions),
                                     ontology.relations)
    /\ first' = IF runs = 0 THEN ontology'.concepts ELSE first
    /\ runs' = runs + 1
    /\ UNCHANGED source
    /\ OthersUnchanged("semantic")

NextSemantic == BuildSemanticHierarchy

SpecSemantic == InitSemantic /\ [][NextSemantic]_vars

----------------------------------------------------------------------------
(* Properties of SpecSemantic.                                             *)

\* id, level and parents of every node of a concept list.
Structure(concepts) ==
    {[concept_id |-> concepts[i].concept_id,
      hierarchy_level |-> concepts[i].hierarchy_level,
      parent_cluster_id |-> concepts[i].parent_cluster_id,
      parent_concept_id |-> concepts[i].parent_concept_id] : i \in DOMAIN concepts}

SynthesizedIds ==
    {ClusterId(i) : i \in 0..Len(Ids)}
    \cup {RefinementId(ClusterId(i), j) : i \in 0..Len(Ids), j \in 0..Len(Ids)}

\* C1: every source concept is still present in the list the first build
\* returns, and the only other members are synthesized cluster and refinement
\* nodes.
C1_SourceConceptsKept ==
    runs = 1 =>
        /\ ConceptIds(source) \subseteq ConceptIds(ontology.concepts)
        /\ ConceptIds(ontology.concepts) \ ConceptIds(source) \subseteq SynthesizedIds

\* C2: the clusters identify_clusters returned are pairwise disjoint and each
\* has at least 2 members.
C2_ClustersDisjoint ==
    /\ \A i, j \in DOMAIN clusters : i /= j => clusters[i] \cap clusters[j] = {}
    /\ \A i \in DOMAIN clusters : Cardinality(clusters[i]) >= 2

\* Two clusters were returned for a graph in which a later seed has a
\* structural relation into an earlier cluster.
C2_Witness ==
    /\ runs = 1
    /\ Len(clusters) = 2
    /\ \E k \in DOMAIN ontology.relations :
          /\ ontology.relations[k].rel \in cluster_relations
          /\ ontology.relations[k].src \in clusters[2]
          /\ ontology.relations[k].dst \in clusters[1]

\* C5: building the hierarchy of an already built ontology yields the same
\* node ids with the same level and parents.
C5_RebuildIsIdempotent ==
    runs = 2 => Structure(ontology.concepts) = Structure(first)

\* The concept list the first build handed to identify_clusters.
GivenIds == ConceptIds(filter_concepts(source, ontology.mentions))

\* C17: a relation with an end that is no concept of the list is skipped: no
\* cluster holds an id that is not a concept of the list identify_clusters was
\* given, and every cluster has at least 2 concepts of the list.
C17_ClustersHoldListedConcepts ==
    runs = 1 =>
        \A i \in DOMAIN clusters :
            /\ clusters[i] \subseteq GivenIds
            /\ Cardinality(clusters[i] \cap GivenIds) >= 2

\* The undirected graph of the structural relations.
StructuralEdges ==
    {<<ontology.relations[k].src, ontology.relations[k].dst>> :
        k \in {n \in DOMAIN ontology.relations :
                  ontology.relations[n].rel \in cluster_relations}}

RECURSIVE Reach(_)
Reach(S) ==
    LET T == S \cup {e[2] : e \in {f \in StructuralEdges : f[1] \in S}}
               \cup {e[1] : e \in {f \in StructuralEdges : f[2] \in S}}
    IN IF T = S THEN S ELSE Reach(T)

Components ==
    {Reach({n}) : n \in GivenIds \cup {e[1] : e \in StructuralEdges}
                                 \cup {e[2] : e \in StructuralEdges}}

\* C19: two concepts joined by a structural relation, in either direction, are
\* in the same cluster whatever the order of the concept list: the clusters
\* are the connected components with at least 2 members of the undirected
\* structural graph.
C19_ClustersAreComponents ==
    runs = 1 =>
        Range(clusters) = {c \in Components : Cardinality(c) >= 2}

\* C20: for a fixed ontology the built hierarchy (refinement nodes, their
\* members, every parent) is the same for every iteration order of the
\* cluster member sets.
C20_OutputIndependentOfSetOrder ==
    runs = 1 =>
        LET given == [ontology EXCEPT !.concepts = source]
        IN \A order \in HashOrders(given) :
              Structure(build_semantic_hierarchy(given, order)) = Structure(ontology.concepts)

----------------------------------------------------------------------------
(* backend/adaptive_hierarchy.py                                           *)
(* The module's Concept is the record of the fields it reads and writes:   *)
(* id, type, label, confidence, coherence, hierarchy_level and the parents.*)

complex_types == {"Process", "Technology", "Feature", "Project"}

\* determine_hierarchy_depth with its two tests in the other order.
DepthTestsSwapped(doc_length, concept_count, cluster_count) ==
    LET depth6 == IF doc_length > 5000 \/ concept_count > 80 THEN 6 ELSE 4
    IN IF doc_length > 2000 \/ concept_count > 40 THEN 5 ELSE depth6

determine_hierarchy_depth(doc_length, concept_count, cluster_count) ==
    LET depth5 == IF doc_length > 2000 \/ concept_count > 40 THEN 5 ELSE 4
    IN IF doc_length > 5000 \/ concept_count > 80 THEN 6 ELSE depth5

AdConcept(id, type, label, confidence, level, pcl, pco) ==
    [id |-> id, type |-> type, label |-> label, confidence |-> confidence,
     coherence |-> confidence, hierarchy_level |-> level,
     parent_cluster_id |-> pcl, parent_concept_id |-> pco]

\* len(relation_graph.get(concept.id, []))
RelationCount(graph, id) == IF id \in DOMAIN graph THEN Len(graph[id]) ELSE 0

\* list.sort(key=count, reverse=True): descending and stable.
RECURSIVE SortByRelationCount(_, _)
SortByRelationCount(ids, graph) ==
    IF ids = <<>> THEN <<>>
    ELSE LET rest == SortByRelationCount(Tail(ids), graph)
             x == Head(ids)
             before == SelectSeq(rest, LAMBDA y : RelationCount(graph, y) > RelationCount(graph, x))
             after == SelectSeq(rest, LAMBDA y : RelationCount(graph, y) <= RelationCount(graph, x))
         IN before \o <<x>> \o after

Max(a, b) == IF a >= b THEN a ELSE b
Min(a, b) == IF a <= b THEN a ELSE b

\* for i in range(0, len(concepts), group_size): ranked[i:i+group_size]
RECURSIVE Chunks(_, _)
Chunks(ranked, group_size) ==
    IF ranked = <<>> THEN <<>>
    ELSE <<SubSeq(ranked, 1, Min(group_size, Len(ranked)))>>
         \o Chunks(SubSeq(ranked, Min(group_size, Len(ranked)) + 1, Len(ranked)), group_size)

\* group_size = max(3, len(concepts) // 3)
GroupSize(n) == Max(3, n \div 3)

\* create_refinement_groups slicing the members in input order, unranked.
CreateGroupsUnranked(ids, graph) ==
    IF Len(ids) <= 5 THEN <<ids>>
    ELSE Chunks(ids, GroupSize(Len(ids)))

\* Lists of member ids; one list holding all of them for 5 members and fewer.
create_refinement_groups(ids, graph) ==
    IF Len(ids) <= 5 THEN <<ids>>
    ELSE Chunks(SortByRelationCount(ids, graph), GroupSize(Len(ids)))

\* The label the provider returns when the call succeeds.
ProviderLabel == "Sub Theme"

\* One call to the provider inside try/except: the label, and the calls made.
generate_refinement_label(parent_label, fails) ==
    [label |-> IF fails THEN parent_label \o " - Refinement" ELSE ProviderLabel,
     calls |-> 1]

should_create_subconcepts(concept, graph) ==
    RelationCount(graph, concept.id) >= 3 \/ concept.type \in complex_types

\* The keys of relation_types, in order of first occurrence.
RECURSIVE DistinctInOrder(_, _)
DistinctInOrder(rels, seen) ==
    IF rels = <<>> THEN <<>>
    ELSE IF Head(rels) \in seen THEN DistinctInOrder(Tail(rels), seen)
         ELSE <<Head(rels)>> \o DistinctInOrder(Tail(rels), seen \cup {Head(rels)})

\* rel_type.replace('_', ' ').title() on the relation types of the input.
TitleCase(rel) ==
    CASE rel = "uses" -> "Uses"
      [] rel = "defines" -> "Defines"
      [] rel = "part_of" -> "Part Of"
      [] rel = "depends_on" -> "Depends On"
      [] OTHER -> rel

SubConceptId(parent_id, idx) == parent_id \o "_sub_" \o ToString(idx)

\* Up to 3 sub-concepts, one per relation type; level 5, no cluster yet.
create_sub_concepts(parent, graph) ==
    LET relations == IF parent.id \in DOMAIN graph THEN graph[parent.id] ELSE <<>>
        keys == DistinctInOrder(relations, {})
        types == SubSeq(keys, 1, Min(3, Len(keys)))
    IN [k \in DOMAIN types |->
           AdConcept(SubConceptId(parent.id, k - 1), parent.type,
                     parent.label \o " - " \o TitleCase(types[k]), 75, 5, None, parent.id)]

\* PlaceInRefinement giving the sub-concepts the level of their parent.
PlaceInRefinementFlatSubs(concept, cluster_id, ref_id, target_depth, graph) ==
    LET placed == [concept EXCEPT !.hierarchy_level = 4, !.parent_cluster_id = cluster_id,
                                  !.parent_concept_id = ref_id]
        subs == create_sub_concepts(placed, graph)
    IN IF target_depth >= 5 /\ should_create_subconcepts(concept, graph)
       THEN [k \in DOMAIN subs |->
                [subs[k] EXCEPT !.hierarchy_level = 4, !.parent_cluster_id = cluster_id,
                                !.parent_concept_id = concept.id]] \o <<placed>>
       ELSE <<placed>>

\* PlaceInRefinement synthesizing sub-concepts only for a concept not yet placed.
PlaceInRefinementOnce(concept, cluster_id, ref_id, target_depth, graph) ==
    LET placed == [concept EXCEPT !.hierarchy_level = 4, !.parent_cluster_id = cluster_id,
                                  !.parent_concept_id = ref_id]
        subs == create_sub_concepts(placed, graph)
    IN IF /\ target_depth >= 5
          /\ should_create_subconcepts(concept, graph)
          /\ concept.hierarchy_level = NoneNum
       THEN [k \in DOMAIN subs |->
                [subs[k] EXCEPT !.hierarchy_level = 5, !.parent_cluster_id = cluster_id,
                                !.parent_concept_id = concept.id]] \o <<placed>>
       ELSE <<placed>>

\* What the loop body over a refinement group appends for one concept.
PlaceInRefinement(concept, cluster_id, ref_id, target_depth, graph) ==
    LET placed == [concept EXCEPT !.hierarchy_level = 4, !.parent_cluster_id = cluster_id,
                                  !.parent_concept_id = ref_id]
    IN IF target_depth = 4 THEN <<placed>>
       ELSE IF target_depth >= 5
            THEN IF should_create_subconcepts(concept, graph)
                 THEN LET subs == create_sub_concepts(placed, graph)
                      IN [k \in DOMAIN subs |->
                             [subs[k] EXCEPT !.hierarchy_level = 5,
                                             !.parent_cluster_id = cluster_id,
                                             !.parent_concept_id = concept.id]]
                         \o <<placed>>
                 ELSE <<placed>>
            ELSE <<concept>>

RECURSIVE PlaceGroup(_, _, _, _, _, _)
PlaceGroup(group, heap, cluster_id, ref_id, target_depth, graph) ==
    IF group = <<>> THEN <<>>
    ELSE PlaceInRefinement(heap[Head(group)], cluster_id, ref_id, target_depth, graph)
         \o PlaceGroup(Tail(group), heap, cluster_id, ref_id, target_depth, graph)

AdRefinementId(cluster_id, ref_idx) == cluster_id \o "_ref_" \o ToString(ref_idx)

\* RefineCluster with the provider's exception ending the loop over the groups.
RECURSIVE RefineClusterAborting(_, _, _, _, _, _, _)
RefineClusterAborting(groups, j, cluster, heap, target_depth, graph, failing) ==
    IF j > Len(groups) \/ AdRefinementId(cluster.id, j - 1) \in failing
    THEN [nodes |-> <<>>,
          calls |-> IF j > Len(groups) THEN <<>> ELSE <<AdRefinementId(cluster.id, j - 1)>>]
    ELSE LET ref_id == AdRefinementId(cluster.id, j - 1)
             rest == RefineClusterAborting(groups, j + 1, cluster, heap, target_depth,
                                           graph, failing)
         IN [nodes |-> <<AdConcept(ref_id, "Refinement", ProviderLabel, 80, 3, cluster.id, None)>>
                       \o PlaceGroup(groups[j], heap, cluster.id, ref_id, target_depth, graph)
                       \o rest.nodes,
             calls |-> <<ref_id>> \o rest.calls]

\* The loop over enumerate(refinement_groups), from group number j on:
\* the nodes appended and the provider calls made.
RECURSIVE RefineCluster(_, _, _, _, _, _, _)
RefineCluster(groups, j, cluster, heap, target_depth, graph, failing) ==
    IF j > Len(groups) THEN [nodes |-> <<>>, calls |-> <<>>]
    ELSE LET ref_id == AdRefinementId(cluster.id, j - 1)
             lab == generate_refinement_label(cluster.label, ref_id \in failing)
             refinement_concept ==
                 AdConcept(ref_id, "Refinement", lab.label, 80, 3, cluster.id, None)
             rest == RefineCluster(groups, j + 1, cluster, heap, target_depth, graph, failing)
         IN [nodes |-> <<refinement_concept>>
                       \o PlaceGroup(groups[j], heap, cluster.id, ref_id, target_depth, graph)
                       \o rest.nodes,
             calls |-> [k \in 1..lab.calls |-> ref_id] \o rest.calls]

\* A member of a cluster that is not refined.
PlaceInCluster(concept, cluster_id, target_depth) ==
    [concept EXCEPT !.hierarchy_level = IF target_depth >= 4 THEN 4 ELSE 3,
                    !.parent_cluster_id = cluster_id,
                    !.parent_concept_id = None]

\* cluster.get('coherence', 0.85)
ClusterCoherence(cluster) == IF cluster.coherence = NoneNum THEN 85 ELSE cluster.coherence

\* The loop over enumerate(clusters), from cluster number i on.
RECURSIVE BuildClusters(_, _, _, _, _, _)
BuildClusters(cls, i, heap, target_depth, graph, failing) ==
    IF i > Len(cls) THEN [nodes |-> <<>>, calls |-> <<>>]
    ELSE LET cluster == cls[i]
             cluster_concept ==
                 AdConcept(cluster.id, "Cluster", cluster.label, ClusterCoherence(cluster),
                           2, None, None)
             needs_refinement == Len(cluster.concepts) > 5
             body == IF needs_refinement /\ target_depth >= 3
                     THEN RefineCluster(create_refinement_groups(cluster.concepts, graph), 1,
                                        cluster, heap, target_depth, graph, failing)
                     ELSE [nodes |-> [k \in DOMAIN cluster.concepts |->
                                         PlaceInCluster(heap[cluster.concepts[k]], cluster.id,
                                                        target_depth)],
                           calls |-> <<>>]
             rest == BuildClusters(cls, i + 1, heap, target_depth, graph, failing)
         IN [nodes |-> <<cluster_concept>> \o body.nodes \o rest.nodes,
             calls |-> body.calls \o rest.calls]

\* The returned list and the provider calls made; `failing` are the refinements
\* whose provider call raises.
build_adaptive_hierarchy(concepts, cls, graph, doc_length, heap, failing) ==
    BuildClusters(cls, 1, heap,
                  determine_hierarchy_depth(doc_length, Len(concepts), Len(cls)),
                  graph, failing)

----------------------------------------------------------------------------
(* SpecAdaptive: one argument tuple, build_adaptive_hierarchy called on it *)
(* and called again on the concept objects the first call annotated.       *)

MaxMembers == 7

DocLengths == {1000, 2500, 6000}

\* Sizes of the clusters handed in: none, one cluster, or one cluster next to
\* a cluster of two.
ClusterShapes ==
    {<<>>} \cup {<<n>> : n \in 1..MaxMembers}
           \cup {<<n, 2>> : n \in 1..MaxMembers} \cup {<<2, n>> : n \in 1..MaxMembers}

\* (type, relation types of relation_graph[id] in list order) of a concept.
PlainProfile == [type |-> "Metric", rels |-> <<>>]
SpecialProfiles ==
    { [type |-> "Metric",  rels |-> <<"uses">>],
      [type |-> "Process", rels |-> <<>>],
      [type |-> "Metric",  rels |-> <<"uses", "part_of", "uses">>],
      [type |-> "Process", rels |-> <<"uses", "part_of", "defines", "depends_on">>] }

\* Profiles of n concepts: the first and the last of the list take any
\* profile, the concepts between them are plain.
ProfileCases(n) ==
    {[i \in 1..n |-> IF i = 1 THEN a ELSE IF i = n THEN b ELSE PlainProfile] :
        a \in SpecialProfiles \cup {PlainProfile}, b \in SpecialProfiles \cup {PlainProfile}}

AId(i) == "a" \o ToString(i)

RECURSIVE Offset(_, _)
Offset(shape, i) == IF i <= 1 THEN 0 ELSE shape[i - 1] + Offset(shape, i - 1)

Total(shape) == Offset(shape, Len(shape) + 1)

ClusterDict(shape, i) ==
    [id |-> "k" \o ToString(i - 1), label |-> "Theme " \o ToString(i - 1),
     coherence |-> IF i = 1 THEN NoneNum ELSE 90,
     concepts |-> [k \in 1..shape[i] |-> AId(Offset(shape, i) + k)]]

AdaptiveInput(shape, prof, doc_length) ==
    [concepts |-> [i \in 1..Total(shape) |-> AId(i)],
     clusters |-> [i \in DOMAIN shape |-> ClusterDict(shape, i)],
     relation_graph |-> [id \in {AId(i) : i \in {j \in 1..Total(shape) : prof[j].rels /= <<>>}}
                            |-> prof[CHOOSE j \in 1..Total(shape) : AId(j) = id].rels],
     doc_length |-> doc_length]

InitAdaptive ==
    /\ \E shape \in ClusterShapes, doc_length \in DocLengths :
          \E prof \in ProfileCases(Total(shape)) :
             /\ adInput = AdaptiveInput(shape, prof, doc_length)
             /\ adHeap = [id \in {AId(i) : i \in 1..Total(shape)} |->
                             AdConcept(id, prof[CHOOSE j \in 1..Total(shape) : AId(j) = id].type,
                                       "Label " \o id, 100, NoneNum, None, None)]
    /\ adOut = <<>>
    /\ adFirst = <<>>
    /\ adCalls = [calls |-> <<>>, failing |-> {}]
    /\ adRuns = 0
    /\ OthersIdle("adaptive")

\* The refinement nodes a build of these arguments creates.
RefinementsOf(input) ==
    UNION {{AdRefinementId(input.clusters[i].id, j - 1) :
               j \in DOMAIN create_refinement_groups(input.clusters[i].concepts,
                                                     input.relation_graph)}
           : i \in {k \in DOMAIN input.clusters : Len(input.clusters[k].concepts) > 5}}

\* id, level and parents of the nodes of a returned list, in list order.
Skeleton(nodes) ==
    [i \in DOMAIN nodes |->
        [id |-> nodes[i].id, hierarchy_level |-> nodes[i].hierarchy_level,
         parent_cluster_id |-> nodes[i].parent_cluster_id,
         parent_concept_id |-> nodes[i].parent_concept_id]]

\* The caller's objects after the call: those in the returned list as annotated.
Annotated(heap, nodes) ==
    [id \in DOMAIN heap |->
        IF \E i \in DOMAIN nodes : nodes[i].id = id
        THEN nodes[CHOOSE i \in DOMAIN nodes :
                      /\ nodes[i].id = id
                      /\ \A j \in DOMAIN nodes : nodes[j].id = id => j <= i]
        ELSE heap[id]]

BuildAdaptiveHierarchy ==
    /\ adRuns < MaxBuilds
    /\ \E failing \in SUBSET RefinementsOf(adInput) :
          LET r == build_adaptive_hierarchy(adInput.concepts, adInput.clusters,
                                            adInput.relation_graph, adInput.doc_length,
                                            adHeap, failing)
          IN /\ adOut' = r.nodes
             /\ adCalls' = [calls |-> r.calls, failing |-> failing]
             /\ adHeap' = Annotated(adHeap, r.nodes)
             /\ adFirst' = IF adRuns = 0 THEN Skeleton(r.nodes) ELSE adFirst
    /\ adRuns' = adRuns + 1
    /\ UNCHANGED adInput
    /\ OthersUnchanged("adaptive")

NextAdaptive == BuildAdaptiveHierarchy

SpecAdaptive == InitAdaptive /\ [][NextAdaptive]_vars

----------------------------------------------------------------------------
(* Properties of SpecAdaptive.                                             *)

OutNodes == {adOut[i] : i \in DOMAIN adOut}

ExpectedChildTypes(id) ==
    LET graph == adInput.relation_graph
        relations == IF id \in DOMAIN graph THEN graph[id] ELSE <<>>
        keys == DistinctInOrder(relations, {})
        eligible == Len(relations) >= 3 \/ adHeap[id].type \in complex_types
        depth == determine_hierarchy_depth(adInput.doc_length, Len(adInput.concepts),
                                           Len(adInput.clusters))
    IN IF depth >= 5 /\ eligible THEN SubSeq(keys, 1, Min(3, Len(keys))) ELSE <<>>

----------------------------------------------------------------------------
(* SpecDepth: determine_hierarchy_depth.                                   *)

MaxClusterCount == 3

DocLengthValues == {0, 1000, 2000, 2001, 2500, 5000, 5001, 6000}
ConceptCountValues == {0, 10, 40, 41, 60, 80, 81, 100}

InitDepth ==
    /\ \E dl \in DocLengthValues, cc \in ConceptCountValues, k \in 0..MaxClusterCount :
          dsIn = [doc_length |-> dl, concept_count |-> cc, cluster_count |-> k]
    /\ dsDepth = 0
    /\ OthersIdle("depth")

DetermineHierarchyDepth ==
    /\ dsDepth = 0
    /\ dsDepth' = determine_hierarchy_depth(dsIn.doc_length, dsIn.concept_count,
                                            dsIn.cluster_count)
    /\ UNCHANGED dsIn
    /\ OthersUnchanged("depth")

NextDepth == DetermineHierarchyDepth

SpecDepth == InitDepth /\ [][NextDepth]_vars

\* C6: the depth is 6 above 5000 words or 80 concepts, else 5 above 2000 words
\* or 40 concepts, else 4; it does not depend on cluster_count and does not
\* decrease when doc_length or concept_count grows.
C6_DepthRule ==
    dsDepth /= 0 =>
        /\ dsDepth = (IF dsIn.doc_length > 5000 \/ dsIn.concept_count > 80 THEN 6
                      ELSE IF dsIn.doc_length > 2000 \/ dsIn.concept_count > 40 THEN 5
                      ELSE 4)
        /\ dsDepth \in {4, 5, 6}
        /\ \A k \in 0..MaxClusterCount :
              determine_hierarchy_depth(dsIn.doc_length, dsIn.concept_count, k) = dsDepth
        /\ \A dl \in DocLengthValues :
              dl >= dsIn.doc_length =>
                 determine_hierarchy_depth(dl, dsIn.concept_count, dsIn.cluster_count)
                     >= dsDepth
        /\ \A cc \in ConceptCountValues :
              cc >= dsIn.concept_count =>
                 determine_hierarchy_depth(dsIn.doc_length, cc, dsIn.cluster_count)
                     >= dsDepth

\* Depth 6 returned for a short document with more than 80 concepts.
C6_Witness ==
    dsDepth = 6 /\ dsIn.doc_length <= 2000 /\ dsIn.concept_count > 80

----------------------------------------------------------------------------
(* SpecGroups: create_refinement_groups on the members of one cluster.     *)

MaxGroupMembers == 10

MaxVaried == 6

\* len(relation_graph[id]) of a member: any of the values for the first
\* MaxVaried members, the smallest or the largest for the members after them.
RelationCountValues == {0, 1, 3}
LateCountValues == {0, 3}

RelationCountCases(n) ==
    {count \in [1..n -> RelationCountValues] :
        \A j \in 1..n : j > MaxVaried => count[j] \in LateCountValues}

InitGroups ==
    /\ \E n \in 0..MaxGroupMembers :
          \E count \in RelationCountCases(n) :
             rgIn = [concepts |-> [i \in 1..n |-> AId(i)],
                     relation_graph |->
                         [id \in {AId(i) : i \in {j \in 1..n : count[j] > 0}} |->
                             [k \in 1..count[CHOOSE j \in 1..n : AId(j) = id] |-> "uses"]]]
    /\ rgGroups = <<>>
    /\ rgDone = FALSE
    /\ OthersIdle("groups")

CreateRefinementGroups ==
    /\ ~rgDone
    /\ rgGroups' = create_refinement_groups(rgIn.concepts, rgIn.relation_graph)
    /\ rgDone' = TRUE
    /\ UNCHANGED rgIn
    /\ OthersUnchanged("groups")

NextGroups == CreateRefinementGroups

SpecGroups == InitGroups /\ [][NextGroups]_vars

RECURSIVE Flatten(_)
Flatten(ss) == IF ss = <<>> THEN <<>> ELSE Head(ss) \o Flatten(Tail(ss))

CeilDiv(a, b) == (a + b - 1) \div b

\* C7: for more than 5 members the groups are consecutive pieces of the ranked
\* list, each of exactly max(3, ceil(n/3)) members except possibly the last,
\* which may be smaller.
C7_GroupsOfCeilThird ==
    (rgDone /\ Len(rgIn.concepts) > 5) =>
        LET n == Len(rgIn.concepts)
            size == Max(3, CeilDiv(n, 3))
        IN /\ Flatten(rgGroups) = SortByRelationCount(rgIn.concepts, rgIn.relation_graph)
           /\ \A g \in 1..(Len(rgGroups) - 1) : Len(rgGroups[g]) = size
           /\ Len(rgGroups[Len(rgGroups)]) \in 1..size

\* Where a member stands in the input list and in the concatenated groups.
InputIndex(id) == CHOOSE i \in DOMAIN rgIn.concepts : rgIn.concepts[i] = id
Degree(id) == RelationCount(rgIn.relation_graph, id)

\* C22: the groups partition the cluster's members (each member in exactly one
\* group, no group empty), every member of an earlier group has a relation
\* degree at least that of every member of a later group, and members of equal
\* degree keep their input order.
C22_GroupsPartitionRanked ==
    (rgDone /\ Len(rgIn.concepts) >= 1) =>
        LET flat == Flatten(rgGroups)
        IN /\ Len(flat) = Len(rgIn.concepts)
           /\ Range(flat) = Range(rgIn.concepts)
           /\ \A g \in DOMAIN rgGroups : rgGroups[g] /= <<>>
           /\ \A g, h \in DOMAIN rgGroups :
                 g < h => \A a \in Range(rgGroups[g]), b \in Range(rgGroups[h]) :
                             Degree(a) >= Degree(b)
           /\ \A i, j \in DOMAIN flat :
                 (i < j /\ Degree(flat[i]) = Degree(flat[j]))
                     => InputIndex(flat[i]) < InputIndex(flat[j])

\* Several groups, members moved by the ranking, and two members of equal
\* degree in different groups.
C22_Witness ==
    /\ rgDone
    /\ Len(rgGroups) >= 3
    /\ Flatten(rgGroups) /= rgIn.concepts
    /\ \E a \in Range(rgGroups[1]), b \in Range(rgGroups[2]) : Degree(a) = Degree(b)

----------------------------------------------------------------------------
(* semantic_folders.py: calculate_auto_sort_score.                         *)
(* Numbers are exact rationals held as integers: a component c in the code *)
(* is held as c * Unit, a weight w as w * 1000, confidence as a percentage *)
(* and the returned score as thousandths.                                  *)

Unit == 7300

base_weights == [given |-> TRUE, confidence |-> 500, relation |-> 200,
                 recency |-> 200, hierarchy |-> 100]

\* timedelta.days: whole days, rounded towards minus infinity.
FloorDiv(a, b) == IF a >= 0 THEN a \div b ELSE -((-a + b - 1) \div b)

\* round(x, 3) of x = n / (1000 * Unit), in thousandths, ties to even.
Round3(n) ==
    LET q == n \div Unit
        r == n % Unit
    IN IF 2 * r > Unit THEN q + 1
       ELSE IF 2 * r < Unit THEN q
       ELSE IF q % 2 = 0 THEN q ELSE q + 1

\* The try block: a value that fromisoformat rejects, or an offset-aware
\* value subtracted from the naive datetime.now(), raises and gives 0.5.
recency_score(created_at) ==
    IF created_at.kind = "naive"
    THEN LET days_old == FloorDiv(created_at.age_hours, 24)
         IN Max(0, Unit - days_old * (Unit \div 365))
    ELSE Unit \div 2

calculate_auto_sort_score(confidence_weight, relation_count, created_at, hierarchy_level, weights) ==
    LET w == IF weights.given THEN weights ELSE base_weights
        relation_score == Min(relation_count * (Unit \div 20), Unit)
        recency == recency_score(created_at)
        hierarchy_bonus == Max(0, Unit - hierarchy_level * (Unit \div 4))
        confidence == IF confidence_weight = NoneNum \/ confidence_weight = 0
                      THEN 50 ELSE confidence_weight
        score == w.confidence * confidence * (Unit \div 100)
                 + w.relation * relation_score
                 + w.recency * recency
                 + w.hierarchy * hierarchy_bonus
    IN [relation_score |-> relation_score, recency_score |-> recency,
        hierarchy_bonus |-> hierarchy_bonus, score |-> Round3(score)]

----------------------------------------------------------------------------
(* SpecScore: one call of calculate_auto_sort_score.                       *)

MaxLevel == 5

ConfidenceValues == {NoneNum, 0, 10, 50, 100}
RelationCounts == {0, 1, 10, 20, 21, 40}
AgeHours == {-48, -1, 0, 23, 24, 4380, 8760, 9600}

CreatedAtValues ==
    {[kind |-> "invalid", age_hours |-> 0]}
    \cup [kind : {"naive", "aware"}, age_hours : AgeHours]

WeightCases ==
    {[given |-> FALSE, confidence |-> 0, relation |-> 0, recency |-> 0, hierarchy |-> 0],
     [given |-> TRUE, confidence |-> 600, relation |-> 200, recency |-> 100,
      hierarchy |-> 100]}

InitScore ==
    /\ \E c \in ConfidenceValues, rc \in RelationCounts, at \in CreatedAtValues,
          l \in 0..MaxLevel, w \in WeightCases :
          scIn = [confidence_weight |-> c, relation_count |-> rc, created_at |-> at,
                  hierarchy_level |-> l, weights |-> w]
    /\ scOut = <<>>
    /\ OthersIdle("score")

CalculateAutoSortScore ==
    /\ scOut = <<>>
    /\ scOut' = <<calculate_auto_sort_score(scIn.confidence_weight, scIn.relation_count,
                                            scIn.created_at, scIn.hierarchy_level,
                                            scIn.weights)>>
    /\ UNCHANGED scIn
    /\ OthersUnchanged("score")

NextScore == CalculateAutoSortScore

SpecScore == InitScore /\ [][NextScore]_vars

\* C9: the three weighted components lie in [0, 1] for every relation count,
\* every parsable created_at (a future one included) and every level; an
\* unparsable created_at gives a recency_score of 0.5.
C9_ComponentsInUnitInterval ==
    scOut /= <<>> =>
        /\ scOut[1].relation_score \in 0..Unit
        /\ scOut[1].recency_score \in 0..Unit
        /\ scOut[1].hierarchy_bonus \in 0..Unit
        /\ scIn.created_at.kind = "invalid" => 2 * scOut[1].recency_score = Unit

\* The weighted sum of the claim, with the confidence taken as passed.
WeightedSum(confidence, out, w) ==
    Round3(w.confidence * confidence * (Unit \div 100)
           + w.relation * out.relation_score
           + w.recency * out.recency_score
           + w.hierarchy * out.hierarchy_bonus)

\* C10: for a confidence in [0, 1], 0 included, the score is the rounded
\* weighted sum of confidence and the three components; with the default
\* weights it does not decrease as confidence grows, and confidence 1 with 20
\* relations, created now, at level 0 scores 1.0.
C10_ScoreIsWeightedSum ==
    (scOut /= <<>> /\ scIn.confidence_weight /= NoneNum) =>
        /\ scOut[1].score =
              WeightedSum(scIn.confidence_weight, scOut[1],
                          IF scIn.weights.given THEN scIn.weights ELSE base_weights)
        /\ ~scIn.weights.given =>
              \A c \in ConfidenceValues \ {NoneNum} :
                 c >= scIn.confidence_weight =>
                    calculate_auto_sort_score(c, scIn.relation_count, scIn.created_at,
                                              scIn.hierarchy_level, scIn.weights).score
                        >= scOut[1].score
        /\ (/\ ~scIn.weights.given
            /\ scIn.confidence_weight = 100
            /\ scIn.relation_count = 20
            /\ scIn.created_at = [kind |-> "naive", age_hours |-> 0]
            /\ scIn.hierarchy_level = 0) => scOut[1].score = 1000

----------------------------------------------------------------------------
(* api.py: GET /search.                                                    *)
(* Text is a sequence of one-character strings.  Scores are exact          *)
(* fractions <<numerator, denominator>> in lowest terms.                   *)

RECURSIVE GCD(_, _)
GCD(a, b) == IF b = 0 THEN a ELSE GCD(b, a % b)

Frac(n, d) == LET g == GCD(n, d) IN IF g = 0 THEN <<0, 1>> ELSE <<n \div g, d \div g>>
FAdd(x, y) == Frac(x[1] * y[2] + y[1] * x[2], x[2] * y[2])
FMul(x, y) == Frac(x[1] * y[1], x[2] * y[2])
FLess(x, y) == x[1] * y[2] < y[1] * x[2]
FLeq(x, y) == x[1] * y[2] <= y[1] * x[2]
Zero == <<0, 1>>
One == <<1, 1>>

RECURSIVE FSum(_)
FSum(xs) == IF xs = <<>> THEN Zero ELSE FAdd(Head(xs), FSum(Tail(xs)))

RECURSIVE FMax(_)
FMax(xs) ==
    IF Len(xs) = 1 THEN xs[1]
    ELSE LET m == FMax(Tail(xs)) IN IF FLess(xs[1], m) THEN m ELSE xs[1]

\* round(x, 3) in thousandths, ties to even.
FRound3(x) ==
    LET n == 1000 * x[1]
        q == n \div x[2]
        r == n % x[2]
    IN IF 2 * r > x[2] THEN q + 1
       ELSE IF 2 * r < x[2] THEN q
       ELSE IF q % 2 = 0 THEN q ELSE q + 1

\* str.lower() on the characters that occur.
LowerChar(c) ==
    CASE c = "A" -> "a"
      [] c = "B" -> "b"
      [] OTHER -> c

Lower(text) == [i \in DOMAIN text |-> LowerChar(text[i])]

Whitespace == {" "}

\* str.split(): the maximal runs of non-whitespace characters.
RECURSIVE SplitFrom(_, _, _)
SplitFrom(text, i, word) ==
    IF i > Len(text) THEN (IF word = <<>> THEN <<>> ELSE <<word>>)
    ELSE IF text[i] \in Whitespace
         THEN (IF word = <<>> THEN <<>> ELSE <<word>>) \o SplitFrom(text, i + 1, <<>>)
         ELSE SplitFrom(text, i + 1, Append(word, text[i]))

Split(text) == SplitFrom(text, 1, <<>>)

StartsWith(text, prefix) ==
    Len(prefix) <= Len(text) /\ SubSeq(text, 1, Len(prefix)) = prefix

\* The 0-based positions at which part occurs in text.
Occurrences(text, part) ==
    {p \in 0..(Len(text) - Len(part)) : SubSeq(text, p + 1, p + Len(part)) = part}

Contains(text, part) == Occurrences(text, part) /= {}

\* str.index(): the first position.
Index(text, part) ==
    CHOOSE p \in Occurrences(text, part) : \A r \in Occurrences(text, part) : p <= r

\* .replace('_', ' ').replace('-', ' ').replace('.', ' ')
ReplaceSeparators(text) ==
    [i \in DOMAIN text |-> IF text[i] \in {"_", "-", "."} THEN " " ELSE text[i]]

\* The scan over the words: the first word that decides, 0 if none does.
RECURSIVE WordBoundaryScore(_, _)
WordBoundaryScore(words, term) ==
    IF words = <<>> THEN Zero
    ELSE IF StartsWith(Head(words), term) THEN Frac(6, 10)
    ELSE IF StartsWith(term, Head(words)) /\ Len(Head(words)) >= 3 THEN Frac(5, 10)
    ELSE WordBoundaryScore(Tail(words), term)

\* The character scan: how many leading characters of term were matched.
RECURSIVE FuzzyScan(_, _, _)
FuzzyScan(text, term, term_idx) ==
    IF text = <<>> THEN term_idx
    ELSE FuzzyScan(Tail(text), term,
                   IF term_idx < Len(term) /\ Head(text) = term[term_idx + 1]
                   THEN term_idx + 1 ELSE term_idx)

calculate_term_score(title, term) ==
    LET title_lower == Lower(title)
        term_lower == Lower(term)
        len == Len(title_lower)
        word_score == WordBoundaryScore(Split(ReplaceSeparators(title_lower)), term_lower)
    IN IF title_lower = term_lower THEN One
       ELSE IF StartsWith(title_lower, term_lower) THEN Frac(9, 10)
       ELSE IF Contains(title_lower, term_lower)
            THEN LET position == Index(title_lower, term_lower)
                 IN FMul(Frac(7, 10),
                         FMul(Frac(Len(term_lower), len), Frac(len - position, len)))
       ELSE IF word_score /= Zero THEN word_score
       ELSE IF FuzzyScan(title_lower, term_lower, 0) = Len(term_lower) THEN Frac(3, 10)
       ELSE Zero

\* query_terms = [term.strip().lower() for term in q.split() if term.strip()]
query_terms(q) == LET parts == Split(q) IN [i \in DOMAIN parts |-> Lower(parts[i])]

\* Step 2, the score of one title.
title_score(title, terms) ==
    IF Len(terms) = 1 THEN calculate_term_score(title, terms[1])
    ELSE LET term_scores == [i \in DOMAIN terms |-> calculate_term_score(title, terms[i])]
             matching_terms == Cardinality({i \in DOMAIN terms : FLess(Zero, term_scores[i])})
         IN IF matching_terms = 0 THEN Zero
            ELSE LET avg_score == FMul(FSum(term_scores), Frac(1, Len(term_scores)))
                 IN IF matching_terms = Len(terms)
                    THEN FMul(avg_score, Frac(3, 2))
                    ELSE FMul(avg_score, Frac(matching_terms, Len(terms)))

\* doc_title_scores: the documents with a positive title score.
doc_title_scores(db, terms) ==
    LET scored == {i \in DOMAIN db.documents :
                      FLess(Zero, title_score(db.documents[i].title, terms))}
    IN [id \in {db.documents[i].id : i \in scored} |->
           title_score(db.documents[CHOOSE i \in scored : db.documents[i].id = id].title,
                       terms)]

\* label LIKE '%term%' on text without the wildcard characters.
Like(label, term) == Contains(Lower(label), Lower(term))

\* The WHERE clause "label LIKE ? OR ... OR label LIKE ? AND type IN (...)":
\* AND binds tighter than OR, so the type test goes with the last LIKE only.
WhereTypesOnLastTerm(row, terms, type_list) ==
    \/ \E i \in 1..(Len(terms) - 1) : Like(row.label, terms[i])
    \/ /\ Like(row.label, terms[Len(terms)])
       /\ type_list = <<>> \/ row.type \in Range(type_list)

\* Step 3: the rows the concept query returns, in table order.
matching_concepts(db, terms, type_list) ==
    SelectSeq(db.concepts, LAMBDA row : WhereTypesOnLastTerm(row, terms, type_list))

\* Step 4: doc_concept_map.get(doc_id, [])
doc_concepts(matching, doc_id) == SelectSeq(matching, LAMBDA row : row.doc_id = doc_id)

\* Step 4.5: semantic_doc_scores; a raising provider leaves it empty.
semantic_doc_scores(semantic, provider) ==
    IF ~semantic \/ provider.raises THEN <<>>
    ELSE LET res == provider.results
         IN [id \in {res[i].doc_id : i \in DOMAIN res} |->
                res[CHOOSE i \in DOMAIN res :
                       /\ res[i].doc_id = id
                       /\ \A j \in DOMAIN res : res[j].doc_id = id => j <= i].score]

GetScore(scores, doc_id) == IF doc_id \in DOMAIN scores THEN scores[doc_id] ELSE Zero

concept_score(concepts) ==
    IF concepts = <<>> THEN Zero
    ELSE FMax([i \in DOMAIN concepts |-> concepts[i].confidence])

\* final_score taking the semantic weights whenever semantic search is enabled.
FinalScoreWheneverEnabled(semantic, title, concept, sem) ==
    IF semantic
    THEN FSum(<<FMul(Frac(4, 10), title), FMul(Frac(2, 10), concept), FMul(Frac(4, 10), sem)>>)
    ELSE FAdd(FMul(Frac(6, 10), title), FMul(Frac(4, 10), concept))

\* Weighted fusion.
final_score(semantic, title, concept, sem) ==
    IF semantic /\ FLess(Zero, sem)
    THEN FSum(<<FMul(Frac(4, 10), title), FMul(Frac(2, 10), concept), FMul(Frac(4, 10), sem)>>)
    ELSE FAdd(FMul(Frac(6, 10), title), FMul(Frac(4, 10), concept))

threshold == Frac(15, 100)

\* The threshold test with a strict comparison.
AboveThresholdStrict(score) == FLess(threshold, score)

AboveThreshold(score) == FLeq(threshold, score)

match_type(sem, title, concept) ==
    IF FLess(title, sem) /\ FLess(concept, sem) THEN "semantic"
    ELSE IF FLess(concept, title) THEN "title"
    ELSE IF FLess(Zero, concept) THEN "concept"
    ELSE "fuzzy"

\* results.sort(key=lambda x: x['score'], reverse=True): descending, stable.
RECURSIVE SortByScore(_)
SortByScore(results) ==
    IF results = <<>> THEN <<>>
    ELSE LET rest == SortByScore(Tail(results))
             x == Head(results)
         IN SelectSeq(rest, LAMBDA y : y.score > x.score) \o <<x>>
            \o SelectSeq(rest, LAMBDA y : y.score <= x.score)

\* Step 5 for one doc_id of all_doc_ids: nothing for an id that is not in the
\* documents table or scores below the threshold, else its result entry.
ScoreDocument(db, doc_id, semantic, titles, matching, sems) ==
    LET found == {i \in DOMAIN db.documents : db.documents[i].id = doc_id}
        title == GetScore(titles, doc_id)
        concepts == doc_concepts(matching, doc_id)
        concept == concept_score(concepts)
        sem == GetScore(sems, doc_id)
        final == final_score(semantic, title, concept, sem)
    IN IF found = {} \/ ~AboveThreshold(final) THEN <<>>
       ELSE <<[doc_id |-> doc_id,
               title |-> db.documents[CHOOSE i \in found : TRUE].title,
               score |-> FRound3(final),
               match_type |-> match_type(sem, title, concept),
               concepts |-> SubSeq(concepts, 1, Min(5, Len(concepts))),
               final_score |-> final]>>

RECURSIVE ScoreDocuments(_, _, _, _, _, _)
ScoreDocuments(db, ids, semantic, titles, matching, sems) ==
    IF ids = <<>> THEN <<>>
    ELSE ScoreDocument(db, Head(ids), semantic, titles, matching, sems)
         \o ScoreDocuments(db, Tail(ids), semantic, titles, matching, sems)

EmptyResponse == [status |-> "ok", results |-> <<>>, count |-> 0]

\* The handler.  type_list is types split at the commas (<<>> for types = "");
\* order is the iteration order of the set all_doc_ids.  Status "error" is an
\* exception leaving the handler: the query without a term makes the concept
\* query end in "WHERE ", which the database rejects.
search(q, type_list, semantic, db, provider, order) ==
    IF q = <<>> THEN EmptyResponse
    ELSE LET terms == query_terms(q)
             titles == doc_title_scores(db, terms)
         IN IF terms = <<>> THEN [status |-> "error", results |-> <<>>, count |-> 0]
            ELSE LET matching == matching_concepts(db, terms, type_list)
                     sems == semantic_doc_scores(semantic, provider)
                     all_doc_ids == DOMAIN titles
                                    \cup {matching[i].doc_id : i \in DOMAIN matching}
                                    \cup DOMAIN sems
                     results == SortByScore(ScoreDocuments(db, IterSet(all_doc_ids, order),
                                                           semantic, titles, matching, sems))
                 IN [status |-> "ok", results |-> results, count |-> Len(results)]

----------------------------------------------------------------------------
(* SpecSearch: a database, one request, and its response.                  *)

MaxConcepts == 2

TitlePool ==
    { <<"a", "b">>, <<"A", " ", "b">>, <<"a", "b", "b">>, <<"b", "a">> }

SecondTitlePool == { <<"a", "b", "b">> }

QueryPool ==
    { <<>>, <<" ">>, <<"A", "B">>, <<"a", " ", "b">>, <<"b", "b">>,
      <<"a", "b", "b", "a">>, <<"a", "b", " ", "A", "B">> }

\* The documents table: d1, or d1 and d2.
DocumentCases ==
    {<<[id |-> "d1", title |-> t]>> : t \in TitlePool}
    \cup {<<[id |-> "d1", title |-> t], [id |-> "d2", title |-> u]>> :
             t \in TitlePool, u \in SecondTitlePool}

\* Rows of the concepts table, in rowid order; "gone" is no document's id.
ConceptPool ==
    << [id |-> "k1", doc_id |-> "d1", label |-> <<"A", "b">>, type |-> "Metric",
        confidence |-> Frac(9, 10)],
       [id |-> "k2", doc_id |-> "d1", label |-> <<"b", "b">>, type |-> "Topic",
        confidence |-> Frac(3, 8)],
       [id |-> "k3", doc_id |-> "d2", label |-> <<"a", "b">>, type |-> "Metric",
        confidence |-> One],
       [id |-> "k4", doc_id |-> "d2", label |-> <<"b", "a">>, type |-> "Topic",
        confidence |-> Frac(9, 10)],
       [id |-> "k5", doc_id |-> "d1", label |-> <<"b", "b">>, type |-> "Metric",
        confidence |-> Frac(1, 2)],
       [id |-> "k6", doc_id |-> "gone", label |-> <<"a", "b">>, type |-> "Metric",
        confidence |-> One] >>

\* A document with more matching concepts than a result lists, in rowid
\* order, the later rows with the higher confidence.
ManyConcepts ==
    [i \in 1..6 |-> [id |-> <<"m1", "m2", "m3", "m4", "m5", "m6">>[i], doc_id |-> "d1", label |-> <<"a", "b">>,
                     type |-> "Metric", confidence |-> Frac(i, 10)]]

ConceptCases ==
    {SelectSeq(ConceptPool, LAMBDA row : row.id \in S) :
        S \in {T \in SUBSET {ConceptPool[i].id : i \in DOMAIN ConceptPool} :
                  Cardinality(T) <= MaxConcepts}}
    \cup {ManyConcepts}

TypeLists == { <<>>, <<"Metric">> }

\* What search_documents_semantic does when called: raise, or return a list.
ProviderCases ==
    {[raises |-> TRUE, results |-> <<>>]}
    \cup {[raises |-> FALSE, results |-> r] :
             r \in { <<>>,
                     <<[doc_id |-> "d1", score |-> Frac(9, 10)]>>,
                     <<[doc_id |-> "d2", score |-> Frac(3, 8)]>>,
                     <<[doc_id |-> "d1", score |-> Frac(3, 10)],
                       [doc_id |-> "gone", score |-> One]>> }}

\* Iteration orders of the set all_doc_ids, as far as they differ on the ids
\* of the documents table.
DocOrders(db) ==
    IF Len(db.documents) = 1 THEN { <<"d1", "d2", "gone">> }
    ELSE { <<"d1", "d2", "gone">>, <<"d2", "d1", "gone">> }

InitSearch ==
    /\ \E docs \in DocumentCases, concepts \in ConceptCases :
          srDb = [documents |-> docs, concepts |-> concepts]
    /\ \E q \in QueryPool, type_list \in TypeLists, semantic \in BOOLEAN,
          provider \in ProviderCases :
          /\ ~semantic => provider.raises
          /\ srReq = [q |-> q, types |-> type_list, semantic |-> semantic,
                      provider |-> provider]
    /\ srResp = <<>>
    /\ OthersIdle("search")

Search ==
    /\ srResp = <<>>
    /\ \E order \in DocOrders(srDb) :
          srResp' = <<[order |-> order,
                       response |-> search(srReq.q, srReq.types, srReq.semantic, srDb,
                                           srReq.provider, order)]>>
    /\ UNCHANGED <<srDb, srReq>>
    /\ OthersUnchanged("search")

NextSearch == Search

SpecSearch == InitSearch /\ [][NextSearch]_vars

Served == srResp /= <<>>
Response == srResp[1].response

\* C11: a query without a token, the empty string or whitespace only, is
\* answered with results = [] and count = 0 and without an error.
C11_NoTokenNoResults ==
    (Served /\ query_terms(srReq.q) = <<>>) => Response = EmptyResponse

\* The three component scores of a document for the served request.
TitleComponent(doc_id) == GetScore(doc_title_scores(srDb, query_terms(srReq.q)), doc_id)
ContributingConcepts(doc_id) ==
    doc_concepts(matching_concepts(srDb, query_terms(srReq.q), srReq.types), doc_id)
ConceptComponent(doc_id) == concept_score(ContributingConcepts(doc_id))
SemanticComponent(doc_id) ==
    GetScore(semantic_doc_scores(srReq.semantic, srReq.provider), doc_id)

Answered == Served /\ query_terms(srReq.q) /= <<>>
Position(doc_id) == CHOOSE i \in DOMAIN Response.results : Response.results[i].doc_id = doc_id
InResults(doc_id) == \E i \in DOMAIN Response.results : Response.results[i].doc_id = doc_id

\* C12: a document whose title equals the query, case-insensitively and also
\* when it has several words, has title score 1.0, and with semantic search
\* disabled no document with a different title is ranked above it.
C12_ExactTitleRanksFirst ==
    Answered =>
        \A i \in DOMAIN srDb.documents :
            LET doc == srDb.documents[i]
            IN Lower(doc.title) = Lower(srReq.q) =>
                  /\ TitleComponent(doc.id) = One
                  /\ ~srReq.semantic =>
                        /\ InResults(doc.id)
                        /\ \A k \in 1..(Position(doc.id) - 1) :
                              Lower(Response.results[k].title) = Lower(srReq.q)

\* The fused score as the rule states it.
Fused(doc_id) ==
    LET t == TitleComponent(doc_id)
        c == ConceptComponent(doc_id)
        m == SemanticComponent(doc_id)
    IN IF srReq.semantic /\ m[1] > 0
       THEN Frac(4 * t[1] * c[2] * m[2] + 2 * c[1] * t[2] * m[2] + 4 * m[1] * t[2] * c[2],
                 10 * t[2] * c[2] * m[2])
       ELSE Frac(6 * t[1] * c[2] + 4 * c[1] * t[2], 10 * t[2] * c[2])

\* C13: the fused score is 0.4 title + 0.2 concept + 0.4 semantic when semantic
\* search is enabled and the semantic score is positive, 0.6 title + 0.4
\* concept otherwise; a document of the table is in the results exactly when
\* its fused score is at least 0.15.
C13_FusionAndThreshold ==
    Answered =>
        \A i \in DOMAIN srDb.documents :
            LET id == srDb.documents[i].id
                fused == Fused(id)
                listed == InResults(id)
            IN /\ listed <=> 20 * fused[1] >= 3 * fused[2]
               /\ listed => Response.results[Position(id)].final_score = fused

\* A document with a fused score of exactly 0.15 is in the results.
C13_Witness ==
    /\ Answered
    /\ \E i \in DOMAIN srDb.documents :
          /\ Fused(srDb.documents[i].id) = <<3, 20>>
          /\ InResults(srDb.documents[i].id)

\* C14: match_type names the largest of the semantic, title and concept
\* scores, equal-largest ones resolved in the order semantic, title, concept;
\* it is 'fuzzy' only when no component is positive.
C14_MatchTypeIsLargest ==
    Answered =>
        \A k \in DOMAIN Response.results :
            LET r == Response.results[k]
                m == SemanticComponent(r.doc_id)
                t == TitleComponent(r.doc_id)
                c == ConceptComponent(r.doc_id)
                largest == FMax(<<m, t, c>>)
            IN r.match_type = (IF largest = Zero THEN "fuzzy"
                               ELSE IF m = largest THEN "semantic"
                               ELSE IF t = largest THEN "title"
                               ELSE "concept")

\* C15: with a non-empty type list, every concept that contributes to a
\* document's concept score or is attached to a result has a listed type,
\* for one query term and for several.
C15_TypeFilterOnEveryConcept ==
    (Answered /\ srReq.types /= <<>>) =>
        /\ \A i \in DOMAIN srDb.documents :
              \A j \in DOMAIN ContributingConcepts(srDb.documents[i].id) :
                 ContributingConcepts(srDb.documents[i].id)[j].type \in Range(srReq.types)
        /\ \A k \in DOMAIN Response.results :
              \A j \in DOMAIN Response.results[k].concepts :
                 Response.results[k].concepts[j].type \in Range(srReq.types)

\* C16: when the similarity provider raises, the response is the one the same
\* request gets with semantic search disabled: same documents, scores, match
\* types and order, and no error that the disabled request does not have.
C16_ProviderFailureAsDisabled ==
    (Served /\ srReq.semantic /\ srReq.provider.raises) =>
        Response = search(srReq.q, srReq.types, FALSE, srDb, srReq.provider, srResp[1].order)

\* The provider raised and the response lists two documents.
C16_Witness ==
    /\ Served /\ srReq.semantic /\ srReq.provider.raises
    /\ Response.status = "ok"
    /\ Len(Response.results) = 2

\* C26: a result carries at most 5 concepts, the highest-confidence ones of
\* the document's matching concepts; the concept whose confidence is the
\* document's concept score is among them.
C26_TopConceptsAttached ==
    Answered =>
        \A k \in DOMAIN Response.results :
            LET r == Response.results[k]
                all == ContributingConcepts(r.doc_id)
                attached == {r.concepts[i].id : i \in DOMAIN r.concepts}
            IN /\ Len(r.concepts) <= 5
               /\ \A i, j \in DOMAIN all :
                     (all[i].id \in attached /\ all[j].id \notin attached) =>
                        FLeq(all[j].confidence, all[i].confidence)
               /\ all /= <<>> =>
                     \E i \in DOMAIN all :
                        /\ all[i].id \in attached
                        /\ all[i].confidence = ConceptComponent(r.doc_id)

\* C30: with confidences and semantic scores in [0, 1], the title score of
\* every document lies in [0, 1] and the fused score of every returned result
\* lies in [0.15, 1], for queries of one term and of several.
C30_ScoresInRange ==
    Answered =>
        /\ \A i \in DOMAIN srDb.documents :
              /\ FLeq(Zero, TitleComponent(srDb.documents[i].id))
              /\ FLeq(TitleComponent(srDb.documents[i].id), One)
        /\ \A k \in DOMAIN Response.results :
              /\ FLeq(threshold, Response.results[k].final_score)
              /\ FLeq(Response.results[k].final_score, One)

----------------------------------------------------------------------------
(* semantic_folders.py: get_adaptive_weights and build_semantic_folders;   *)
(* api.py: POST /admin/sort-weights.                                       *)
(* Weights and deltas are in thousandths, scores as in                     *)
(* calculate_auto_sort_score.  The summary columns are NULL in every row.  *)

\* The sort_weights table before any migration has created it
NoTable == [created |-> FALSE, rows |-> <<>>]

Table(rows) == [created |-> TRUE, rows |-> rows]

\* What the function does when the table is missing: sqlite3 raises.
Raises == [raises |-> TRUE]

default_rows(table) == SelectSeq(table.rows, LAMBDA row : row.id = "default")

get_adaptive_weights(table) ==
    IF ~table.created THEN Raises
    ELSE IF default_rows(table) /= <<>>
         THEN LET row == default_rows(table)[1]
              IN [raises |-> FALSE, given |-> TRUE,
                  confidence |-> 500 + row.weight_confidence,
                  relation |-> 200 + row.weight_relation,
                  recency |-> 200 + row.weight_recency,
                  hierarchy |-> 100 + row.weight_hierarchy]
         ELSE [raises |-> FALSE, given |-> TRUE, confidence |-> 500, relation |-> 200,
               recency |-> 200, hierarchy |-> 100]

\* An UPDATE that adds the deltas to the stored ones instead of replacing them.
UpdateSortWeightsAdding(table, deltas, notes, now) ==
    IF default_rows(table) /= <<>>
    THEN Table([i \in DOMAIN table.rows |->
             IF table.rows[i].id = "default"
             THEN [id |-> "default",
                   weight_confidence |-> table.rows[i].weight_confidence + deltas.confidence,
                   weight_relation |-> table.rows[i].weight_relation + deltas.relation,
                   weight_recency |-> table.rows[i].weight_recency + deltas.recency,
                   weight_hierarchy |-> table.rows[i].weight_hierarchy + deltas.hierarchy,
                   updated_at |-> now, notes |-> notes]
             ELSE table.rows[i]])
    ELSE Table(Append(table.rows,
                      [id |-> "default", weight_confidence |-> deltas.confidence,
                       weight_relation |-> deltas.relation,
                       weight_recency |-> deltas.recency,
                       weight_hierarchy |-> deltas.hierarchy,
                       updated_at |-> now, notes |-> notes]))

\* The table after update_sort_weights' UPDATE or INSERT and its commit.
update_sort_weights(table, deltas, notes, now) ==
    LET row == [id |-> "default", weight_confidence |-> deltas.confidence,
                weight_relation |-> deltas.relation, weight_recency |-> deltas.recency,
                weight_hierarchy |-> deltas.hierarchy, updated_at |-> now,
                notes |-> notes]
    IN IF default_rows(table) /= <<>>
       THEN Table([i \in DOMAIN table.rows |->
                      IF table.rows[i].id = "default" THEN row ELSE table.rows[i]])
       ELSE Table(Append(table.rows, row))

\* Code points of the characters that occur, in increasing order.
CodeOrder ==
    <<" ", "A", "B", "U", "a", "b", "c", "d", "e", "g", "i", "n", "o", "r", "t", "z">>

Code(c) == CHOOSE i \in DOMAIN CodeOrder : CodeOrder[i] = c

\* str < str
RECURSIVE LexLess(_, _)
LexLess(a, b) ==
    IF b = <<>> THEN FALSE
    ELSE IF a = <<>> THEN TRUE
    ELSE IF Head(a) = Head(b) THEN LexLess(Tail(a), Tail(b))
    ELSE Code(Head(a)) < Code(Head(b))

\* list.sort: stable, ascending in the key; Key[x] is the place of x's key
\* among the keys.
RECURSIVE SortBy(_, _)
SortBy(items, Key) ==
    IF items = <<>> THEN <<>>
    ELSE LET rest == SortBy(Tail(items), Key)
             x == Head(items)
         IN SelectSeq(rest, LAMBDA y : Key[y] < Key[x]) \o <<x>>
            \o SelectSeq(rest, LAMBDA y : Key[y] >= Key[x])

\* The number of the given strings that are smaller than the string.
LexRank(text, texts) == Cardinality({t \in texts : LexLess(t, text)})

\* key=created_at, reverse=True, on naive ISO strings of one format: the
\* larger string is the later time, the smaller age.
ByCreatedAtReversed(items) ==
    SortBy(items, [x \in Range(items) |-> x.created_at.age_hours])
ByTitle(items) ==
    SortBy(items, [x \in Range(items) |->
                      LexRank(x.title, {y.title : y \in Range(items)})])
ByScoreReversed(items) == SortBy(items, [x \in Range(items) |-> -x.score])

\* The folder of the rows that have no cluster, and the folder of all documents
\* (its name in the code starts with a calendar emoji).
Uncategorized == <<"U", "n", "c", "a", "t", "e", "g", "o", "r", "i", "z", "e", "d">>
RecentFiles == <<"Recent Files">>

RECURSIVE DistinctRows(_, _)
DistinctRows(rows, seen) ==
    IF rows = <<>> THEN <<>>
    ELSE IF Head(rows) \in seen THEN DistinctRows(Tail(rows), seen)
         ELSE <<Head(rows)>> \o DistinctRows(Tail(rows), seen \cup {Head(rows)})

\* SELECT label FROM concepts WHERE id = ?: the rows found.
ClusterRows(db, id) == SelectSeq(db.concepts, LAMBDA c : c.id = id)

DocumentOf(db, c) ==
    db.documents[CHOOSE i \in DOMAIN db.documents : db.documents[i].id = c.doc_id]

\* The WHERE clause: with a query, LIKE on the labels and the title (LIKE on
\* a NULL summary is not true); without one, hierarchy_level IN (0, 1).
FolderWhere(db, c, query) ==
    IF query /= <<>>
    THEN \/ Like(c.label, query)
         \/ Like(DocumentOf(db, c).title, query)
         \/ /\ ClusterRows(db, c.parent_cluster_id) /= <<>>
            /\ Like(ClusterRows(db, c.parent_cluster_id)[1].label, query)
    ELSE c.hierarchy_level \in {0, 1}

\* cur.fetchall(): the distinct rows of documents JOIN concepts, in the order
\* of the scan of the concepts table.
folder_rows(db, query) ==
    LET joined == SelectSeq(db.concepts,
                     LAMBDA c : /\ \E i \in DOMAIN db.documents :
                                      db.documents[i].id = c.doc_id
                                /\ FolderWhere(db, c, query))
        rows == [i \in DOMAIN joined |->
                    LET c == joined[i]
                        d == DocumentOf(db, c)
                    IN [doc_id |-> d.id, title |-> d.title, created_at |-> d.created_at,
                        concept_label |-> c.label, concept_type |-> c.type,
                        confidence |-> c.confidence,
                        hierarchy_level |-> c.hierarchy_level,
                        parent_cluster_id |-> c.parent_cluster_id,
                        relation_count |-> c.relation_count]]
    IN DistinctRows(rows, {})

\* The level a row is scored at: "hierarchy_level or 3".
LevelOr3(hierarchy_level) ==
    IF hierarchy_level = NoneNum \/ hierarchy_level = 0 THEN 3 ELSE hierarchy_level

row_score(row, weights) ==
    calculate_auto_sort_score(row.confidence, row.relation_count, row.created_at,
                              LevelOr3(row.hierarchy_level), weights).score

folder_name(db, row) ==
    IF row.hierarchy_level = 1 THEN row.concept_label
    ELSE IF row.parent_cluster_id /= None
         THEN IF ClusterRows(db, row.parent_cluster_id) /= <<>>
              THEN ClusterRows(db, row.parent_cluster_id)[1].label
              ELSE Uncategorized
         ELSE Uncategorized

\* doc_scores after the first loop, in insertion order: one entry per
\* document, replaced in place by a row of the document that scores higher.
RECURSIVE TrackScores(_, _, _)
TrackScores(rows, weights, doc_scores) ==
    IF rows = <<>> THEN doc_scores
    ELSE LET row == Head(rows)
             entry == [doc_id |-> row.doc_id, title |-> row.title,
                       score |-> row_score(row, weights),
                       created_at |-> row.created_at,
                       concept_type |-> row.concept_type]
             at == {i \in DOMAIN doc_scores : doc_scores[i].doc_id = row.doc_id}
         IN TrackScores(Tail(rows), weights,
               IF at = {} THEN Append(doc_scores, entry)
               ELSE LET i == CHOOSE j \in at : TRUE
                    IN IF entry.score > doc_scores[i].score
                       THEN [doc_scores EXCEPT ![i] = entry]
                       ELSE doc_scores)

\* The second loop's set of doc_ids of one folder.
folder_doc_ids(db, rows, name) ==
    {rows[i].doc_id : i \in {j \in DOMAIN rows :
        IF rows[j].hierarchy_level = 1 /\ rows[j].concept_label = name THEN TRUE
        ELSE /\ rows[j].parent_cluster_id /= None
             /\ ClusterRows(db, rows[j].parent_cluster_id) /= <<>>
             /\ ClusterRows(db, rows[j].parent_cluster_id)[1].label = name}}

SortItems(items, sort_mode) ==
    IF sort_mode = "auto" THEN ByScoreReversed(items)
    ELSE IF sort_mode = "alphabetical" THEN ByTitle(items)
    ELSE IF sort_mode = "recency" THEN ByCreatedAtReversed(items)
    ELSE items

folder_items(db, rows, name, doc_scores, sort_mode, order) ==
    LET ids == IterSet(folder_doc_ids(db, rows, name), order)
        items == [i \in DOMAIN ids |->
                     doc_scores[CHOOSE j \in DOMAIN doc_scores :
                                   doc_scores[j].doc_id = ids[i]]]
    IN SortItems(items, sort_mode)

\* sorted(folders.keys()) without the Recent Files folder.
SortedNames(names) ==
    SortBy(CHOOSE s \in [1..Cardinality(names) -> names] : Range(s) = names,
           [n \in names |-> LexRank(n, names)])

build_semantic_folders(db, table, query, sort_mode, order) ==
    LET rows == folder_rows(db, query)
        fetched == IF sort_mode = "auto" THEN get_adaptive_weights(table) ELSE Raises
        weights == IF fetched.raises
                   THEN [given |-> FALSE, confidence |-> 0, relation |-> 0,
                         recency |-> 0, hierarchy |-> 0]
                   ELSE [given |-> TRUE, confidence |-> fetched.confidence,
                         relation |-> fetched.relation, recency |-> fetched.recency,
                         hierarchy |-> fetched.hierarchy]
        doc_scores == TrackScores(rows, weights, <<>>)
        names == {folder_name(db, rows[i]) : i \in DOMAIN rows}
        recent == IF sort_mode \in {"auto", "recency"} THEN ByCreatedAtReversed(doc_scores)
                  ELSE IF sort_mode = "alphabetical" THEN ByTitle(doc_scores)
                  ELSE doc_scores
        sorted == SortedNames(names)
    IN [folders |->
            <<[name |-> RecentFiles, items |-> SubSeq(recent, 1, Min(10, Len(recent)))]>>
            \o [i \in DOMAIN sorted |->
                   [name |-> sorted[i],
                    items |-> folder_items(db, rows, sorted[i], doc_scores, sort_mode,
                                           order)]],
        sort_mode |-> sort_mode,
        query |-> query]

----------------------------------------------------------------------------
(* SpecFolders: a database; sort-weight updates and folder builds on it.   *)

MaxFolderDocs == 3
MaxUpdates == 2

Created(age) == [kind |-> "naive", age_hours |-> age]

\* The documents table.  The second document is as old as the first or older.
FolderDocumentCases ==
    {SubSeq(<<[id |-> "d1", title |-> <<"a", "b">>, created_at |-> Created(0)],
              [id |-> "d2", title |-> <<"A">>, created_at |-> Created(age)],
              [id |-> "d3", title |-> <<"a">>, created_at |-> Created(24)],
              [id |-> "d4", title |-> <<"a", "b">>, created_at |-> Created(0)]>>,
            1, n) : n \in 1..MaxFolderDocs, age \in {0, 48}}

\* Rows of the concepts table, in rowid order, with the number of relations
\* each concept takes part in.
FolderConceptPool ==
    << [id |-> "r1", doc_id |-> "d1", label |-> <<"a", "b">>, type |-> "Topic",
        confidence |-> 100, hierarchy_level |-> 0, parent_cluster_id |-> None,
        relation_count |-> 0],
       [id |-> "k1", doc_id |-> "d1", label |-> <<"A", "b">>, type |-> "Cluster",
        confidence |-> 80, hierarchy_level |-> 1, parent_cluster_id |-> None,
        relation_count |-> 2],
       [id |-> "c1", doc_id |-> "d1", label |-> <<"b", "a">>, type |-> "Metric",
        confidence |-> 50, hierarchy_level |-> 4, parent_cluster_id |-> "k1",
        relation_count |-> 1],
       [id |-> "k2", doc_id |-> "d2", label |-> <<"A", "b">>, type |-> "Cluster",
        confidence |-> 80, hierarchy_level |-> 1, parent_cluster_id |-> None,
        relation_count |-> 2],
       [id |-> "c2", doc_id |-> "d2", label |-> <<"b", "b">>, type |-> "Topic",
        confidence |-> NoneNum, hierarchy_level |-> NoneNum,
        parent_cluster_id |-> "gone", relation_count |-> 21],
       [id |-> "c5", doc_id |-> "d2", label |-> <<"a">>, type |-> "Metric",
        confidence |-> 10, hierarchy_level |-> 3, parent_cluster_id |-> "k2",
        relation_count |-> 0],
       [id |-> "k3", doc_id |-> "d3", label |-> <<"A", "b">>, type |-> "Cluster",
        confidence |-> 100, hierarchy_level |-> 1, parent_cluster_id |-> None,
        relation_count |-> 2],
       [id |-> "c3", doc_id |-> "d3", label |-> <<"b">>, type |-> "Metric",
        confidence |-> 100, hierarchy_level |-> 5, parent_cluster_id |-> "k3",
        relation_count |-> 0],
       [id |-> "k4", doc_id |-> "d4", label |-> <<"B">>, type |-> "Cluster",
        confidence |-> 80, hierarchy_level |-> 1, parent_cluster_id |-> None,
        relation_count |-> 2],
       [id |-> "c4", doc_id |-> "d4", label |-> <<"a", "b">>, type |-> "Refinement",
        confidence |-> 80, hierarchy_level |-> 2, parent_cluster_id |-> "k1",
        relation_count |-> 2] >>

\* The concepts of the documents, with or without the document roots (level 0).
FolderConceptCases(docs) ==
    {SelectSeq(FolderConceptPool,
               LAMBDA c : /\ c.doc_id \in {docs[i].id : i \in DOMAIN docs}
                          /\ roots \/ c.hierarchy_level /= 0) : roots \in BOOLEAN}

\* The sort_weights table: not created yet, created and emptied, or as the
\* migration leaves it.
WeightTableCases ==
    {NoTable, Table(<<>>),
     Table(<<[id |-> "default", weight_confidence |-> 0, weight_relation |-> 0,
              weight_recency |-> 0, weight_hierarchy |-> 0, updated_at |-> 0,
              notes |-> "Initial default weights"]>>)}

DeltaCases ==
    {[confidence |-> 0, relation |-> 0, recency |-> 0, hierarchy |-> 0],
     [confidence |-> 100, relation |-> 0, recency |-> -100, hierarchy |-> 0],
     [confidence |-> -100, relation |-> 50, recency |-> 0, hierarchy |-> 50]}

FolderQueries == { <<>>, <<"b">> }
SortModes == {"auto", "alphabetical", "recency"}

\* Iteration orders of a set of doc_ids in one process.
FolderDocOrders(db) == Perms({db.documents[i].id : i \in DOMAIN db.documents})

InitFolders ==
    /\ \E docs \in FolderDocumentCases :
          \E concepts \in FolderConceptCases(docs) :
              fdDb = [documents |-> docs, concepts |-> concepts]
    /\ fdWeights \in WeightTableCases
    /\ fdLast = <<>>
    /\ fdUpdates = 0
    /\ fdOut = <<>>
    /\ OthersIdle("folders")

\* POST /admin/sort-weights.  On a missing table the SELECT raises and the
\* handler answers 500.
UpdateSortWeights ==
    /\ fdUpdates < MaxUpdates
    /\ \E deltas \in DeltaCases, notes \in {None, "tuned"} :
          /\ fdWeights' = IF ~fdWeights.created THEN fdWeights
                          ELSE update_sort_weights(fdWeights, deltas, notes,
                                                   fdUpdates + 1)
          /\ fdLast' = <<[deltas |-> deltas,
                          status |-> IF fdWeights.created THEN 200 ELSE 500]>>
    /\ fdUpdates' = fdUpdates + 1
    /\ UNCHANGED <<fdDb, fdOut>>
    /\ OthersUnchanged("folders")

\* GET /api/folders/semantic, served once.
BuildSemanticFolders ==
    /\ fdOut = <<>>
    /\ \E query \in FolderQueries, sort_mode \in SortModes,
          order \in FolderDocOrders(fdDb) :
          fdOut' = <<[order |-> order,
                      response |-> build_semantic_folders(fdDb, fdWeights, query,
                                                          sort_mode, order)]>>
    /\ UNCHANGED <<fdDb, fdWeights, fdLast, fdUpdates>>
    /\ OthersUnchanged("folders")

NextFolders == UpdateSortWeights \/ BuildSemanticFolders

SpecFolders == InitFolders /\ [][NextFolders]_vars

Built == fdOut /= <<>>
Folders == fdOut[1].response.folders

\* The place of a document's first row in the query rows.
FirstRow(doc_id) ==
    LET rows == folder_rows(fdDb, fdOut[1].response.query)
    IN CHOOSE i \in DOMAIN rows :
          /\ rows[i].doc_id = doc_id
          /\ \A j \in DOMAIN rows : rows[j].doc_id = doc_id => i <= j

\* C25: with sort_mode 'auto' the items of every cluster folder are in
\* non-increasing score order, and items of equal score are in the order in
\* which their documents first appear in the query rows.
C25_AutoOrderStable ==
    (Built /\ fdOut[1].response.sort_mode = "auto") =>
        \A f \in 2..Len(Folders) :
            LET items == Folders[f].items
            IN \A i, j \in DOMAIN items :
                  i < j =>
                     /\ items[i].score >= items[j].score
                     /\ items[i].score = items[j].score =>
                           FirstRow(items[i].doc_id) < FirstRow(items[j].doc_id)

\* C27: every row is scored at its stored hierarchy_level, with the bonus
\* max(0, 1 - level/4) for the levels 0..5 (1.0 at level 0, never increasing
\* with the level): each item carries the highest such score of its
\* document's rows.
C27_ScoredAtStoredLevel ==
    Built =>
        LET rows == folder_rows(fdDb, fdOut[1].response.query)
            fetched == get_adaptive_weights(fdWeights)
            weights == IF fdOut[1].response.sort_mode = "auto" /\ ~fetched.raises
                       THEN fetched ELSE base_weights
            Stored(row) == calculate_auto_sort_score(row.confidence, row.relation_count,
                                                     row.created_at, row.hierarchy_level,
                                                     weights)
        IN /\ \A i \in DOMAIN rows :
                 rows[i].hierarchy_level \in 0..MaxLevel =>
                    /\ Stored(rows[i]).hierarchy_bonus =
                          Max(0, Unit - rows[i].hierarchy_level * (Unit \div 4))
                    /\ rows[i].hierarchy_level = 0 => Stored(rows[i]).hierarchy_bonus = Unit
                    /\ \A j \in DOMAIN rows :
                          (/\ rows[j].hierarchy_level \in 0..MaxLevel
                           /\ rows[i].hierarchy_level <= rows[j].hierarchy_level) =>
                              Stored(rows[i]).hierarchy_bonus
                                 >= Stored(rows[j]).hierarchy_bonus
           /\ \A f \in DOMAIN Folders :
                 \A k \in DOMAIN Folders[f].items :
                    LET item == Folders[f].items[k]
                        own == {i \in DOMAIN rows : rows[i].doc_id = item.doc_id}
                    IN (\A i \in own : rows[i].hierarchy_level \in 0..MaxLevel) =>
                          /\ \E i \in own : item.score = Stored(rows[i]).score
                          /\ \A i \in own : item.score >= Stored(rows[i]).score

----------------------------------------------------------------------------
(* analytics.py: track_folder_view, called by POST /analytics/track-view.  *)
(* Each request runs in its own thread on its own connection (get_db());   *)
(* a call is the steps SELECT, UPDATE or INSERT, and commit.               *)

MaxCallers == 3

Callers == 1..MaxCallers
ViewKeys == {[folder_name |-> "F", doc_id |-> d] : d \in {"d1", "d2"}}

\* The rows the SELECT of a call matches, in table order.
StatRows(table, key) ==
    SelectSeq(table, LAMBDA row : /\ row.folder_name = key.folder_name
                                  /\ row.doc_id = key.doc_id)

\* The table after the call's UPDATE (when its SELECT found a row) or INSERT.
track_folder_view_write(table, key, row, stat_id, now) ==
    IF row /= <<>>
    THEN [i \in DOMAIN table |->
             IF table[i].id = row[1].id
             THEN [table[i] EXCEPT !.view_count = row[1].view_count + 1,
                                   !.last_opened = now]
             ELSE table[i]]
    ELSE Append(table, [id |-> stat_id, folder_name |-> key.folder_name,
                        doc_id |-> key.doc_id, view_count |-> 1, last_opened |-> now])

\* stat_<uuid4>: an id no other call draws.
StatId(p) == <<"stat", p>>

InitViews ==
    /\ vwTable = <<>>
    /\ vwCall = [p \in Callers |-> [pc |-> "idle"]]
    /\ vwLock = 0
    /\ vwClock = 0
    /\ OthersIdle("views")

\* A request arrives: get_db() opens its connection.
TrackView(p) ==
    /\ vwCall[p].pc = "idle"
    /\ \E key \in ViewKeys :
          vwCall' = [vwCall EXCEPT ![p] = [pc |-> "select", key |-> key]]
    /\ UNCHANGED <<vwTable, vwLock, vwClock>>
    /\ OthersUnchanged("views")

\* SELECT id, view_count ...; fetchone(); now = datetime.now()
TrackSelect(p) ==
    /\ vwCall[p].pc = "select"
    /\ LET found == StatRows(vwTable, vwCall[p].key)
       IN vwCall' = [vwCall EXCEPT ![p] =
             [pc |-> "write", key |-> vwCall[p].key,
              row |-> IF found = <<>> THEN <<>>
                      ELSE <<[id |-> found[1].id, view_count |-> found[1].view_count]>>,
              now |-> vwClock + 1]]
    /\ vwClock' = vwClock + 1
    /\ UNCHANGED <<vwTable, vwLock>>
    /\ OthersUnchanged("views")

\* UPDATE or INSERT: opens the connection's transaction and takes the
\* database's write lock, which one connection holds at a time.
TrackWrite(p) ==
    /\ vwCall[p].pc = "write"
    /\ vwLock = 0
    /\ vwLock' = p
    /\ vwCall' = [vwCall EXCEPT ![p] =
          [pc |-> "commit", key |-> vwCall[p].key,
           written |-> track_folder_view_write(vwTable, vwCall[p].key, vwCall[p].row,
                                               StatId(p), vwCall[p].now)]]
    /\ UNCHANGED <<vwTable, vwClock>>
    /\ OthersUnchanged("views")

\* The write lock stays taken for the connection's timeout: sqlite3 raises
\* "database is locked" and the endpoint answers 500.
TrackLocked(p) ==
    /\ vwCall[p].pc = "write"
    /\ vwLock \notin {0, p}
    /\ vwCall' = [vwCall EXCEPT ![p] = [pc |-> "failed", key |-> vwCall[p].key]]
    /\ UNCHANGED <<vwTable, vwLock, vwClock>>
    /\ OthersUnchanged("views")

\* conn.commit(): the written table becomes the database; the call returns.
TrackCommit(p) ==
    /\ vwCall[p].pc = "commit"
    /\ vwTable' = vwCall[p].written
    /\ vwLock' = 0
    /\ vwCall' = [vwCall EXCEPT ![p] = [pc |-> "done", key |-> vwCall[p].key]]
    /\ UNCHANGED vwClock
    /\ OthersUnchanged("views")

NextViews ==
    \E p \in Callers :
        \/ TrackView(p)
        \/ TrackSelect(p)
        \/ TrackWrite(p)
        \/ TrackLocked(p)
        \/ TrackCommit(p)

SpecViews == InitViews /\ [][NextViews]_vars

\* The calls for a key that have returned, and those still running.
Completed(key) == {p \in Callers : vwCall[p].pc = "done" /\ vwCall[p].key = key}
Running(key) ==
    {p \in Callers : vwCall[p].pc \in {"select", "write", "commit"} /\ vwCall[p].key = key}

\* C28: when n calls of track_folder_view for a (folder_name, doc_id) pair,
\* made concurrently on separate connections, have completed, folder_stats
\* holds exactly one row for the pair and its view_count is n.
C28_OneRowCountsEveryView ==
    \A key \in ViewKeys :
        (Running(key) = {} /\ Completed(key) /= {}) =>
            /\ Len(StatRows(vwTable, key)) = 1
            /\ StatRows(vwTable, key)[1].view_count = Cardinality(Completed(key))

----------------------------------------------------------------------------
(* Ingestion jobs: api.py (ingest_document, ingest_file, process_ingestion *)
(* on the in-memory jobs dict) and n8n_api.py (create_job, update_job,     *)
(* process_document on the jobs table).  A background task is a sequence   *)
(* of steps, each of which returns or raises.                              *)

MaxJobs == 2

JobIds == 1..MaxJobs

NoJob == [status |-> "absent", doc_id |-> None, concepts |-> NoneNum,
          relations |-> NoneNum, error |-> None]
NoTask == [api |-> "none", pc |-> "none"]

\* jobs[job_id] = {...} in api.py; create_job in n8n_api.py.
NewJob(status) ==
    [status |-> status, doc_id |-> None, concepts |-> NoneNum, relations |-> NoneNum,
     error |-> None]

\* str(e) of the exception caught: a message, or the empty string.
ErrorTexts == {"", "error"}

\* update_job: only the arguments that are truthy (status, doc_id, error) or
\* not None (concepts, relations) are written.
update_job(job, status, doc_id, concepts, relations, error) ==
    [status |-> IF status /= None THEN status ELSE job.status,
     doc_id |-> IF doc_id /= None /\ doc_id /= "" THEN doc_id ELSE job.doc_id,
     concepts |-> IF concepts /= NoneNum THEN concepts ELSE job.concepts,
     relations |-> IF relations /= NoneNum THEN relations ELSE job.relations,
     error |-> IF error /= None /\ error /= "" THEN error ELSE job.error]

\* The except branch of process_ingestion: jobs[job_id]["error"] = str(e).
ingestion_failed(job, text) == [job EXCEPT !.status = "failed", !.error = text]

\* The except branch of process_document, when its update_job succeeds.
document_handler(job, text) == update_job(job, "failed", None, NoneNum, NoneNum, text)

InitJobs ==
    /\ jbJobs = [j \in JobIds |-> NoJob]
    /\ jbTask = [j \in JobIds |-> NoTask]
    /\ OthersIdle("jobs")

JobStep(j, job, api, pc) ==
    /\ jbJobs' = [jbJobs EXCEPT ![j] = job]
    /\ jbTask' = [jbTask EXCEPT ![j] = [api |-> api, pc |-> pc]]
    /\ OthersUnchanged("jobs")

\* api.py POST /api/ingest and /api/ingest/file: the job is created queued
\* and process_ingestion is added as a background task.
IngestDocument(j) ==
    /\ jbTask[j].pc = "none"
    /\ JobStep(j, NewJob("queued"), "api", "begin")

\* process_ingestion, first statements.
IngestionBegin(j) ==
    /\ jbTask[j].api = "api" /\ jbTask[j].pc = "begin"
    /\ JobStep(j, [jbJobs[j] EXCEPT !.status = "processing"], "api", "read")

AfterStep(pc) ==
    CASE pc = "read" -> "extract"
      [] pc = "extract" -> "store"
      [] pc = "store" -> "summaries"
      [] pc = "summaries" -> "embeddings"
      [] pc = "embeddings" -> "finish"

\* Reading the document, extracting the ontology, storing it: the step
\* returns, or raises into the except branch.
IngestionStep(j) ==
    /\ jbTask[j].api = "api" /\ jbTask[j].pc \in {"read", "extract", "store"}
    /\ \/ JobStep(j, jbJobs[j], "api", AfterStep(jbTask[j].pc))
       \/ \E text \in ErrorTexts :
             JobStep(j, ingestion_failed(jbJobs[j], text), "api", "returned")

\* Summaries and embeddings have their own try/except: the step returns, or
\* raises and is reported by its handler, or the handler's print raises into
\* the outer except branch.
IngestionOptional(j) ==
    /\ jbTask[j].api = "api" /\ jbTask[j].pc \in {"summaries", "embeddings"}
    /\ \/ JobStep(j, jbJobs[j], "api", AfterStep(jbTask[j].pc))
       \/ \E text \in ErrorTexts :
             JobStep(j, ingestion_failed(jbJobs[j], text), "api", "returned")

\* os.unlink(tmp_path), then the job is completed; or os.unlink raises.
IngestionFinish(j) ==
    /\ jbTask[j].api = "api" /\ jbTask[j].pc = "finish"
    /\ \/ JobStep(j, [status |-> "completed", doc_id |-> "doc", concepts |-> 3,
                      relations |-> 2, error |-> jbJobs[j].error], "api", "returned")
       \/ \E text \in ErrorTexts :
             JobStep(j, ingestion_failed(jbJobs[j], text), "api", "returned")

\* n8n_api.py POST /api/ingest and /api/ingest/file: create_job, then
\* process_document is added as a background task.
N8nIngestDocument(j) ==
    /\ jbTask[j].pc = "none"
    /\ JobStep(j, NewJob("pending"), "n8n", "begin")

\* update_job(job_id, status="processing", progress=0.1); sqlite3 may raise.
DocumentBegin(j) ==
    /\ jbTask[j].api = "n8n" /\ jbTask[j].pc = "begin"
    /\ \/ JobStep(j, update_job(jbJobs[j], "processing", None, NoneNum, NoneNum, None),
                  "n8n", "extract")
       \/ JobStep(j, jbJobs[j], "n8n", "handler")

\* extract_and_store(file_path, title)
DocumentExtract(j) ==
    /\ jbTask[j].api = "n8n" /\ jbTask[j].pc = "extract"
    /\ \/ JobStep(j, jbJobs[j], "n8n", "complete")
       \/ JobStep(j, jbJobs[j], "n8n", "handler")

\* update_job(job_id, status="completed", ..., doc_id, concepts, relations)
DocumentComplete(j) ==
    /\ jbTask[j].api = "n8n" /\ jbTask[j].pc = "complete"
    /\ \/ JobStep(j, update_job(jbJobs[j], "completed", "doc", 3, 2, None), "n8n", "print")
       \/ JobStep(j, jbJobs[j], "n8n", "handler")

\* print(f"... Job {job_id} completed ..."): returns, or raises (a stdout
\* that cannot encode the message) into the except branch.
DocumentPrint(j) ==
    /\ jbTask[j].api = "n8n" /\ jbTask[j].pc = "print"
    /\ \/ JobStep(j, jbJobs[j], "n8n", "returned")
       \/ JobStep(j, jbJobs[j], "n8n", "handler")

\* except Exception as e: update_job(job_id, status="failed", progress=0.0,
\* error=str(e)); when this update_job raises too, the task ends there.
DocumentHandler(j) ==
    /\ jbTask[j].api = "n8n" /\ jbTask[j].pc = "handler"
    /\ \/ \E text \in ErrorTexts :
             JobStep(j, document_handler(jbJobs[j], text), "n8n", "returned")
       \/ JobStep(j, jbJobs[j], "n8n", "raised")

TaskStep(j) ==
    \/ IngestionBegin(j)
    \/ IngestionStep(j)
    \/ IngestionOptional(j)
    \/ IngestionFinish(j)
    \/ DocumentBegin(j)
    \/ DocumentExtract(j)
    \/ DocumentComplete(j)
    \/ DocumentPrint(j)
    \/ DocumentHandler(j)

NextJobs ==
    \E j \in JobIds :
        \/ IngestDocument(j)
        \/ N8nIngestDocument(j)
        \/ IngestionBegin(j)
        \/ IngestionStep(j)
        \/ IngestionOptional(j)
        \/ IngestionFinish(j)
        \/ DocumentBegin(j)
        \/ DocumentExtract(j)
        \/ DocumentComplete(j)
        \/ DocumentPrint(j)
        \/ DocumentHandler(j)

SpecJobs == InitJobs /\ [][NextJobs]_vars

\* Starlette runs every background task that was added, to its end.
LiveJobs == SpecJobs /\ \A j \in JobIds : WF_vars(TaskStep(j))

\* The moves of a job's status that the lifecycle has.
StatusMoves ==
    {<<"absent", "queued">>, <<"absent", "pending">>, <<"queued", "processing">>,
     <<"pending", "processing">>, <<"processing", "completed">>,
     <<"processing", "failed">>}

\* C29: a job's status only moves queued/pending -> processing ->
\* (completed | failed), completed and failed being final; doc_id and the
\* counts are set only in a completed job and error only in a failed job; and
\* every job whose background task runs eventually is completed or failed,
\* whatever step of the task raises.
C29_JobLifecycle ==
    /\ [][\A j \in JobIds :
             \/ jbJobs'[j].status = jbJobs[j].status
             \/ <<jbJobs[j].status, jbJobs'[j].status>> \in StatusMoves]_vars
    /\ [](\A j \in JobIds :
             /\ (\/ jbJobs[j].doc_id /= None
                 \/ jbJobs[j].concepts /= NoneNum
                 \/ jbJobs[j].relations /= NoneNum) => jbJobs[j].status = "completed"
             /\ jbJobs[j].error /= None => jbJobs[j].status = "failed")
    /\ \A j \in JobIds :
          (jbTask[j].pc /= "none") ~> (jbJobs[j].status \in {"completed", "failed"})

----------------------------------------------------------------------------
(* Properties over both hierarchy builds.                                  *)

\* C21: in both builds a cluster of 5 members or fewer gets no refinement
\* node; its members hang directly under the cluster, with no
\* parent_concept_id, at the level of atomic concepts (4 in the adaptive build,
\* 3 in the semantic build).
C21_SmallClusterNotRefined ==
    /\ adRuns >= 1 =>
          \A i \in DOMAIN adInput.clusters :
              LET c == adInput.clusters[i]
              IN Len(c.concepts) <= 5 =>
                    /\ ~\E n \in OutNodes : n.type = "Refinement" /\ n.parent_cluster_id = c.id
                    /\ \A k \in DOMAIN c.concepts :
                          \E n \in OutNodes :
                              /\ n.id = c.concepts[k]
                              /\ n.parent_cluster_id = c.id
                              /\ n.parent_concept_id = None
                              /\ n.hierarchy_level = 4
    /\ runs = 1 =>
          \A i \in DOMAIN clusters :
              LET cluster_id == ClusterId(i - 1)
                  members == clusters[i] \cap GivenIds
                  nodes == Range(ontology.concepts)
              IN Cardinality(members) <= 5 =>
                    /\ ~\E n \in nodes : /\ n.parent_cluster_id = cluster_id
                                         /\ n.concept_id \notin members
                    /\ \A m \in members :
                          \E n \in nodes :
                              /\ n.concept_id = m
                              /\ n.parent_cluster_id = cluster_id
                              /\ n.parent_concept_id = None
                              /\ n.hierarchy_level = 3

====
